---- MODULE Spec2Model ----
(***************************************************************************)
(* Model of the mention-driven dubbing bot (functions/index.js,            *)
(* functions/config/twitter.js, functions/services/dubbing.js,             *)
(* functions/utils/error.js).                                              *)
(*                                                                         *)
(* Spec          the Dubbing Job Driver: one call of sendToMurf, in each   *)
(*               of its three implementations, against a vendor whose      *)
(*               answers are chosen freely at every request.               *)
(* SpecMentions  the mention producers (doPollMentions, twitterWebhook ->  *)
(*               processWebhookEvent -> processMentionTweet, handleMention,*)
(*               processTweetDirect) running as interleaved invocations    *)
(*               over the shared Firestore documents.                      *)
(* SpecExtractor parseMention and normalizeLanguage as pure functions of   *)
(*               a mention text and of the extraction service's answer.    *)
(* SpecHandlers  one invocation of a mention handler, statement by         *)
(*               statement, from the request to its response.              *)
(* SpecRetry     one call of retryOperation (functions/test/setup.js)      *)
(*               with an operation that may throw at every attempt.        *)
(* SpecDubbing   handleDubbing requests of one instance as interleaved     *)
(*               invocations that share the temporary directory.           *)
(***************************************************************************)
EXTENDS Integers, Sequences, FiniteSets, TLC

\* ------------------------------------------------------------------ bounds
\* longest download_details list the vendor status endpoint answers with
MaxDetails == 2
\* mention ids on the platform, 1..MaxMention, older ids smaller
MaxMention == 2
\* most items (words, links) in a mention text
MaxText == 2
\* largest maxRetries argument retryOperation is called with
MaxRetryArg == 4

\* ------------------------------------------------------- program constants
\* index.js:321 / twitter.js:137  const maxRetries = 120
maxRetries == 120
maxRetries_twitter == 120
\* utils/error.js retryOperation(operation, maxRetries = 3, delayMs = 1000)
retryMaxRetries == 3
retryDelayMs == 1000

\* JavaScript's undefined (an absent field, a missing table entry)
undefined == "undefined"

\* ----------------------------------------------------------- language maps
\* index.js LANGUAGE_MAP
LANGUAGE_MAP ==
  [l \in {"French", "German", "Spanish", "Hindi", "Japanese", "English",
          "Korean", "Chinese"} |->
     CASE l = "French" -> "fr_FR"
       [] l = "German" -> "de_DE"
       [] l = "Spanish" -> "es_ES"
       [] l = "Hindi" -> "hi_IN"
       [] l = "Japanese" -> "ja_JP"
       [] l = "English" -> "en_US"
       [] l = "Korean" -> "ko_KR"
       [] l = "Chinese" -> "zh_CN"]

\* config/twitter.js LANGUAGE_MAP
LANGUAGE_MAP_twitter ==
  [l \in {"French", "German", "Spanish", "Hindi", "Japanese", "English",
          "Korean", "Chinese"} |->
     CASE l = "French" -> "fr_FR"
       [] l = "German" -> "de_DE"
       [] l = "Spanish" -> "es_ES"
       [] l = "Hindi" -> "hi_IN"
       [] l = "Japanese" -> "ja_JP"
       [] l = "English" -> "en_US"
       [] l = "Korean" -> "ko_KR"
       [] l = "Chinese" -> "zh_CN"]

\* config/murf.js LANGUAGE_MAP, the table services/dubbing.js imports
LANGUAGE_MAP_murf ==
  [l \in {"French", "German", "Spanish", "Hindi", "Japanese", "English"} |->
     CASE l = "French" -> "fr_FR"
       [] l = "German" -> "de_DE"
       [] l = "Spanish" -> "es_ES"
       [] l = "Hindi" -> "hi_IN"
       [] l = "Japanese" -> "ja_JP"
       [] l = "English" -> "en_US"]

\* the members every object literal inherits from Object.prototype
ObjectPrototypeKeys ==
  {"constructor", "toString", "toLocaleString", "valueOf", "hasOwnProperty",
   "isPrototypeOf", "propertyIsEnumerable", "__proto__", "__defineGetter__",
   "__defineSetter__", "__lookupGetter__", "__lookupSetter__"}

\* what a lookup yields for an inherited member: a function or an object,
\* which is truthy
inherited == "[inherited member]"

\* LANGUAGE_MAP[language] as JavaScript evaluates the property access on an
\* object literal: the own entry, else the member inherited from
\* Object.prototype, else undefined
Lookup(map, language) ==
  IF language \in DOMAIN map THEN map[language]
  ELSE IF language \in ObjectPrototypeKeys THEN inherited
  ELSE undefined

\* the three sendToMurf implementations
Drivers == {"index", "twitter", "dubbing"}

\* the table each driver consults
DriverMap(d) ==
  CASE d = "index" -> LANGUAGE_MAP
    [] d = "twitter" -> LANGUAGE_MAP_twitter
    [] d = "dubbing" -> LANGUAGE_MAP_murf

\* languages a caller may pass: a name every table has, a name only the
\* eight-entry tables have, a name no table has, a lower-case name (the
\* tables are keyed by capitalised names), undefined, and a name that
\* normalizeLanguage leaves as it is and that no table has as an entry
LanguageInputs ==
  {"English", "Korean", "Klingon", "french", undefined, "__defineGetter__"}

\* ------------------------------------------------------- vendor responses
Urls == {"https://murf/a.mp4", "https://murf/b.mp4"}

\* one download_details entry is its download_url (undefined when the entry
\* has none)
DetailEntries == Urls \cup {undefined}

RECURSIVE SeqsUpTo(_, _)
SeqsUpTo(S, n) ==
  IF n = 0 THEN {<<>>}
  ELSE LET shorter == SeqsUpTo(S, n - 1)
       IN shorter \cup {Append(s, x) : s \in {t \in shorter : Len(t) = n - 1}, x \in S}

\* the body of a status response (statusResponse.data), or a request that
\* raised (net = TRUE)
Resp(net, status, hasDetails, details, reason) ==
  [net |-> net, status |-> status, has_details |-> hasDetails,
   download_details |-> details, failure_reason |-> reason]

NoResp == Resp(FALSE, "none", FALSE, <<>>, undefined)
NetworkError == Resp(TRUE, "none", FALSE, <<>>, undefined)

StatusResponses ==
  {NetworkError}
  \cup {Resp(FALSE, s, FALSE, <<>>, undefined) : s \in {"PENDING", "RUNNING", "QUEUED"}}
  \cup {Resp(FALSE, "COMPLETED", FALSE, <<>>, undefined)}
  \cup {Resp(FALSE, "COMPLETED", TRUE, d, undefined) : d \in SeqsUpTo(DetailEntries, MaxDetails)}
  \cup {Resp(FALSE, "FAILED", FALSE, <<>>, r) : r \in {undefined, "quota exceeded"}}

\* answers to the job-creation request
CreateResponses == {"ok", "http_error", "network_error"}

\* ------------------------------------------------------------------ state
VARIABLES
  \* --- one call of sendToMurf(videoPath, language)
  drv,          \* which implementation is running
  language,     \* the language argument
  mpc,          \* position: start, signedUrl, create, poll, returned, thrown
  i,            \* the poll loop's counter (index.js:324)
  attempt,      \* retryOperation's attempt counter (utils/error.js:68)
  createCalls,  \* job-creation requests sent to the vendor
  statusCalls,  \* status requests sent to the vendor
  storageCalls, \* signed-URL requests sent to the storage service
  result,       \* what the call returned or threw
  \* --- history of the vendor's answers, for stating the claims
  lastResp,     \* the answer to the most recent status request
  priorKinds    \* kinds of the answers before the most recent one

driverVars ==
  <<drv, language, mpc, i, attempt, createCalls, statusCalls, storageCalls,
    result, lastResp, priorKinds>>

VARIABLES
  \* --- Firestore and the platform, shared by all invocations
  processed,     \* ids that have a processedTweets document
  lastMentionId, \* state/bot.lastMentionId, 0 when there is none
  dubbed,        \* per mention id: dubbed-video replies posted to it
  \* --- one record per invocation
  kind,          \* idle, poll, webhook, mention, direct
  pc,            \* the await the invocation is at
  batch,         \* the mentions the invocation iterates over
  idx,           \* position in batch
  sinceId,       \* doPollMentions: the cursor as read at the start
  newestId,      \* doPollMentions: let newestId
  sawMarker      \* history: the mention examined last had a marker

mentionVars ==
  <<processed, lastMentionId, dubbed, kind, pc, batch, idx, sinceId,
    newestId, sawMarker>>

VARIABLES
  \* --- one call of parseMention and the normalizeLanguage that follows it
  text,          \* the argument of parseMention
  service,       \* how the chat-completion call behaves for this call
  xpc,           \* start, parsed, normalized, raised
  extracted,     \* what parseMention resolved to: {language, tweetUrl}
  normalized     \* normalizeLanguage(extracted.language)

extractVars == <<text, service, xpc, extracted, normalized>>

VARIABLES
  \* --- one invocation of a mention handler, step by step
  handler,       \* idle, handleMention, processTweetDirect, twitterWebhook,
                 \* doPollMentions
  hpc,           \* the statement the invocation is at
  mentions,      \* the mentions it iterates over (one for the two requests)
  pos,           \* position in mentions
  marked,        \* ids that have a processedTweets document
  raw,           \* {language, tweetUrl} as parseMention resolved them
  normalizedLanguage, \* const normalizedLanguage
  tweetMedia,    \* processTweetDirect: the tweet carries a video itself
  video,    \* media download for this mention: none, ok, failed,
                 \* no_video (nothing to download from)
  handed,        \* the language argument sendToMurf was called with
  jobs,          \* mentions whose sendToMurf call has not ended yet
  jobOutcome,    \* none, url (returned), failed (threw)
  published,     \* the reply publisher for this mention: none, ok, failed
  replied,       \* kinds of replies tweeted (attempted) to this mention
  response,      \* the HTTP response sent, none before
  error,         \* the error field of the response body, none without
  request,       \* the inbound HTTP request: method, query, body
  crc,           \* the response_token of the response body, NoCrc without
  lookup,        \* processTweetDirect: what singleTweet(tweetId) gave
  tmp,           \* os.tmpdir(): per path, the request whose data the file
                 \* holds, 0 when there is no such file
  tokensDoc,     \* the Firestore document tokens/demo
  cursor,        \* state/bot.lastMentionId, 0 when there is none
  since,         \* doPollMentions: const sinceId
  newest,        \* doPollMentions: let newestId
  failedIds,     \* history: mentions of this run whose processing failed
  ending         \* history: how a doPollMentions run ended

handlerVars ==
  <<handler, hpc, mentions, pos, marked, raw, normalizedLanguage, tweetMedia,
    video, handed, jobs, jobOutcome, published, replied, response, error,
    request, crc, lookup, tmp, tokensDoc,
    cursor, since, newest, failedIds, ending>>

VARIABLES
  \* --- one call of retryOperation(operation, maxRetries, delayMs)
  rMaxRetries,   \* the maxRetries argument (3 when omitted)
  rDelayMs,      \* the delayMs argument (1000 when omitted)
  rAttempt,      \* let attempt
  rpc,           \* loop, returned, thrown
  rCalls,        \* calls of operation() made
  rErrors,       \* codes of the errors operation() threw, in order
  rWaits,        \* the delays waited between attempts, in order
  rResult        \* what the call returned or threw

retryVars ==
  <<rMaxRetries, rDelayMs, rAttempt, rpc, rCalls, rErrors, rWaits, rResult>>

\* the handler group without the temporary files
handlerRest ==
  <<handler, hpc, mentions, pos, marked, raw, normalizedLanguage, tweetMedia,
    video, handed, jobs, jobOutcome, published, replied, response, error,
    request, crc, lookup, tokensDoc, cursor, since, newest, failedIds, ending>>

vars == <<driverVars, mentionVars, extractVars, handlerVars, retryVars>>

\* ------------------------------------------------------- results & errors
NoResult == [kind |-> "none", url |-> undefined, msg |-> "", detail |-> ""]
Return(url) == [kind |-> "return", url |-> url, msg |-> "", detail |-> ""]
Throw(msg, detail) == [kind |-> "throw", url |-> undefined, msg |-> msg, detail |-> detail]
Continue == [kind |-> "next", url |-> undefined, msg |-> "", detail |-> ""]

UnsupportedLanguage(l) == Throw("Unsupported language", l)
TimeoutError == Throw("Timeout: Murf job did not complete within expected time", "")
NoDownloadDetails == Throw("Murf job completed, but no download details found.", "")
\* `Murf dubbing failed: ${jobData.failure_reason || "Unknown error"}`
DubbingFailed(reason) ==
  Throw("Murf dubbing failed", IF reason = undefined THEN "Unknown error" ELSE reason)
\* what axios raises for a non-2xx answer or a connection failure
RequestFailed(why) == Throw("Request failed", why)

\* ------------------------------------------------- sendToMurf: poll loop
\* mutant of FindDownloadUrl: takes the last entry that has a download_url
FindDownloadUrl_last(resp) ==
  IF ~resp.has_details THEN undefined
  ELSE LET d == resp.download_details
           hits == {k \in 1..Len(d) : d[k] # undefined}
       IN IF hits = {} THEN undefined
          ELSE d[CHOOSE k \in hits : \A j \in hits : k >= j]

\* jobData.download_details?.find((d) => d.download_url): the first entry
\* that has a download_url, undefined when there is none or no list
FindDownloadUrl(resp) ==
  IF ~resp.has_details THEN undefined
  ELSE LET d == resp.download_details
           hits == {k \in 1..Len(d) : d[k] # undefined}
       IN IF hits = {} THEN undefined
          ELSE d[CHOOSE k \in hits : \A j \in hits : k <= j]

\* the try block of one loop iteration (index.js:325-349), given the
\* answer to the status request
TryBlock(resp) ==
  IF resp.net THEN RequestFailed("network_error")
  ELSE IF resp.status = "COMPLETED"
       THEN IF FindDownloadUrl(resp) = undefined
            THEN NoDownloadDetails
            ELSE Return(FindDownloadUrl(resp))
  ELSE IF resp.status = "FAILED"
       THEN DubbingFailed(resp.failure_reason)
  ELSE Continue

\* mutant of CatchBlock: the catch block rethrows what it caught
CatchBlock_rethrow(t) == t

\* the catch block of the iteration (index.js:350-352): whatever the try
\* block threw is logged and the loop goes on
CatchBlock(t) ==
  IF t.kind = "throw" THEN Continue ELSE t

PollIteration(resp) == CatchBlock(TryBlock(resp))

\* the kind of a status answer, as the driver's state machine names it
Kind(resp) ==
  IF resp.net THEN "net"
  ELSE IF resp.status \in {"COMPLETED", "FAILED"} THEN resp.status
  ELSE IF resp.status \in {"PENDING", "RUNNING"} THEN "nonterminal"
  ELSE "other"

Recorded(resp) ==
  IF resp = NoResp \/ Kind(resp) = "nonterminal" THEN {} ELSE {Kind(resp)}

\* ------------------------------------------------------------ retry helper
\* utils/error.js:75  error.code === errorTypes.VALIDATION || attempt === maxRetries
RetryGivesUp(code, att, maxR) ==
  code = "VALIDATION_ERROR" \/ att = maxR

\* mutant of RetryDelay: the same delay after every failure
RetryDelay_constant(att, delayMs) == delayMs

\* utils/error.js:82  delayMs * Math.pow(2, attempt - 1)
RetryDelay(att, delayMs) == delayMs * (2 ^ (att - 1))

\* errorTypes, and undefined for an error that carries no code
ErrorCodes ==
  {"TWITTER_API_ERROR", "VALIDATION_ERROR", undefined}

\* what a call of retryOperation ends with: the value the n-th call of
\* operation() returned, or the error the n-th call threw
NoOutcome == [kind |-> "none", code |-> undefined, call |-> 0]
Returned(n) == [kind |-> "return", code |-> undefined, call |-> n]
Rethrown(code, n) == [kind |-> "throw", code |-> code, call |-> n]

IdleRetry ==
  /\ rMaxRetries = retryMaxRetries
  /\ rDelayMs = retryDelayMs
  /\ rAttempt = 1
  /\ rpc = "loop"
  /\ rCalls = 0
  /\ rErrors = <<>>
  /\ rWaits = <<>>
  /\ rResult = NoOutcome

\* retryOperation(operation, maxRetries = 3, delayMs = 1000)
InitRetry ==
  /\ rMaxRetries \in 0..MaxRetryArg
  /\ rDelayMs \in {retryDelayMs, 250}
  /\ rAttempt = 1
  /\ rpc = "loop"
  /\ rCalls = 0
  /\ rErrors = <<>>
  /\ rWaits = <<>>
  /\ rResult = NoOutcome

\* one iteration of for (let attempt = 1; attempt <= maxRetries; attempt++):
\* return await operation(), or the catch block: rethrow, or wait and go on
retryOperation_Attempt ==
  /\ rpc = "loop"
  /\ rAttempt <= rMaxRetries
  /\ rCalls' = rCalls + 1
  /\ \E threw \in BOOLEAN, code \in ErrorCodes :
       IF ~threw
       THEN /\ rpc' = "returned"
            /\ rResult' = Returned(rCalls + 1)
            /\ UNCHANGED <<rAttempt, rErrors, rWaits>>
       ELSE /\ rErrors' = Append(rErrors, code)
            /\ IF RetryGivesUp(code, rAttempt, rMaxRetries)
               THEN /\ rpc' = "thrown"
                    /\ rResult' = Rethrown(code, rCalls + 1)
                    /\ UNCHANGED <<rAttempt, rWaits>>
               ELSE /\ rWaits' = Append(rWaits, RetryDelay(rAttempt, rDelayMs))
                    /\ rAttempt' = rAttempt + 1
                    /\ UNCHANGED <<rpc, rResult>>
  /\ UNCHANGED <<rMaxRetries, rDelayMs>>

\* the loop condition fails: throw lastError
retryOperation_LoopEnd ==
  /\ rpc = "loop"
  /\ rAttempt > rMaxRetries
  /\ rpc' = "thrown"
  /\ rResult' = IF rErrors = <<>> THEN Rethrown(undefined, 0)
                ELSE Rethrown(rErrors[Len(rErrors)], rCalls)
  /\ UNCHANGED <<rMaxRetries, rDelayMs, rAttempt, rCalls, rErrors, rWaits>>

\* ---------------------------------------------------------- driver actions
InitDriver ==
  /\ drv \in Drivers
  /\ language \in LanguageInputs
  /\ mpc = "start"
  /\ i = 0
  /\ attempt = 1
  /\ createCalls = 0
  /\ statusCalls = 0
  /\ storageCalls = 0
  /\ result = NoResult
  /\ lastResp = NoResp
  /\ priorKinds = {}

\* const targetLocale = LANGUAGE_MAP[language]; if (!targetLocale) throw
LanguageCheck ==
  /\ mpc = "start"
  /\ IF Lookup(DriverMap(drv), language) = undefined
     THEN /\ mpc' = "thrown"
          /\ result' = UnsupportedLanguage(language)
     ELSE /\ mpc' = IF drv = "dubbing" THEN "signedUrl" ELSE "create"
          /\ result' = result
  /\ UNCHANGED <<drv, language, i, attempt, createCalls, statusCalls,
                 storageCalls, lastResp, priorKinds>>

\* mutant of CreateJobBody: a failed job-creation request is sent again
CreateJobBody_retry ==
  /\ mpc = "create"
  /\ createCalls' = createCalls + 1
  /\ \E r \in CreateResponses :
       IF r = "ok"
       THEN mpc' = "poll" /\ result' = result
       ELSE IF createCalls + 1 < retryMaxRetries
            THEN mpc' = "create" /\ result' = result
            ELSE mpc' = "thrown" /\ result' = RequestFailed(r)
  /\ UNCHANGED <<drv, language, i, attempt, statusCalls, storageCalls,
                 lastResp, priorKinds>>

\* axios.post(".../murfdub/jobs/create", form): sent once, not wrapped
CreateJobBody ==
  /\ mpc = "create"
  /\ createCalls' = createCalls + 1
  /\ \E r \in CreateResponses :
       IF r = "ok"
       THEN mpc' = "poll" /\ result' = result
       ELSE mpc' = "thrown" /\ result' = RequestFailed(r)
  /\ UNCHANGED <<drv, language, i, attempt, statusCalls, storageCalls,
                 lastResp, priorKinds>>

\* mutant of PollBody: the loop condition reads i <= maxRetries
PollBody_inclusive(max) ==
  /\ mpc = "poll"
  /\ i <= max
  /\ statusCalls' = statusCalls + 1
  /\ \E resp \in StatusResponses :
       /\ lastResp' = resp
       /\ priorKinds' = priorKinds \cup Recorded(lastResp)
       /\ LET o == PollIteration(resp)
          IN CASE o.kind = "return" -> mpc' = "returned" /\ result' = o /\ i' = i
               [] o.kind = "throw" -> mpc' = "thrown" /\ result' = o /\ i' = i
               [] OTHER -> mpc' = "poll" /\ result' = result /\ i' = i + 1
  /\ UNCHANGED <<drv, language, attempt, createCalls, storageCalls>>

\* mutant of PollBody: a status request that raised is repeated without
\* consuming an attempt
PollBody_freeOnError(max) ==
  /\ mpc = "poll"
  /\ i < max
  /\ statusCalls' = statusCalls + 1
  /\ \E resp \in StatusResponses :
       /\ lastResp' = resp
       /\ priorKinds' = priorKinds \cup Recorded(lastResp)
       /\ LET o == PollIteration(resp)
          IN CASE o.kind = "return" -> mpc' = "returned" /\ result' = o /\ i' = i
               [] o.kind = "throw" -> mpc' = "thrown" /\ result' = o /\ i' = i
               [] OTHER -> /\ mpc' = "poll" /\ result' = result
                           /\ i' = IF resp.net THEN i ELSE i + 1
  /\ UNCHANGED <<drv, language, attempt, createCalls, storageCalls>>

\* one iteration of for (let i = 0; i < maxRetries; i++) { try ... catch }
PollBody(max) ==
  /\ mpc = "poll"
  /\ i < max
  /\ statusCalls' = statusCalls + 1
  /\ \E resp \in StatusResponses :
       /\ lastResp' = resp
       /\ priorKinds' = priorKinds \cup Recorded(lastResp)
       /\ LET o == PollIteration(resp)
          IN CASE o.kind = "return" -> mpc' = "returned" /\ result' = o /\ i' = i
               [] o.kind = "throw" -> mpc' = "thrown" /\ result' = o /\ i' = i
               [] OTHER -> mpc' = "poll" /\ result' = result /\ i' = i + 1
  /\ UNCHANGED <<drv, language, attempt, createCalls, storageCalls>>

\* the loop ran out: throw new Error("Timeout: ...")
ExhaustedBody(max) ==
  /\ mpc = "poll"
  /\ i >= max
  /\ mpc' = "thrown"
  /\ result' = TimeoutError
  /\ UNCHANGED <<drv, language, i, attempt, createCalls, statusCalls,
                 storageCalls, lastResp, priorKinds>>

index_CreateJob == drv = "index" /\ CreateJobBody
index_Poll == drv = "index" /\ PollBody(maxRetries)
index_Exhausted == drv = "index" /\ ExhaustedBody(maxRetries)

twitter_CreateJob == drv = "twitter" /\ CreateJobBody
twitter_Poll == drv = "twitter" /\ PollBody(maxRetries_twitter)
twitter_Exhausted == drv = "twitter" /\ ExhaustedBody(maxRetries_twitter)

\* services/dubbing.js: const videoUrl = await getTempFileUrl(videoPath)
dubbing_SignedUrl ==
  /\ drv = "dubbing"
  /\ mpc = "signedUrl"
  /\ storageCalls' = storageCalls + 1
  /\ \E ok \in BOOLEAN :
       IF ok THEN mpc' = "create" /\ result' = result
       ELSE mpc' = "thrown" /\ result' = RequestFailed("storage_error")
  /\ UNCHANGED <<drv, language, i, attempt, createCalls, statusCalls,
                 lastResp, priorKinds>>

\* services/dubbing.js: retryOperation(() => axios.post(`${baseUrl}/dub`)),
\* one attempt of the helper's loop per step
dubbing_Submit ==
  /\ drv = "dubbing"
  /\ mpc = "create"
  /\ attempt <= retryMaxRetries
  /\ createCalls' = createCalls + 1
  /\ \E r \in CreateResponses :
       IF r = "ok"
       THEN \E u \in Urls : mpc' = "returned" /\ result' = Return(u) /\ attempt' = attempt
       ELSE IF RetryGivesUp(r, attempt, retryMaxRetries)
            THEN mpc' = "thrown" /\ result' = RequestFailed(r) /\ attempt' = attempt
            ELSE mpc' = "create" /\ result' = result /\ attempt' = attempt + 1
  /\ UNCHANGED <<drv, language, i, statusCalls, storageCalls, lastResp, priorKinds>>

\* ======================================================================
\* The mention producers
\* ======================================================================
MentionIds == 1..MaxMention
\* the invocations of the cloud functions: two, each runs once as any of the
\* producers, and the two may overlap at every await
Procs == {1, 2}

\* strictly ascending sequences over a set of ids: a page of the mentions
\* timeline after .reverse() (the platform lists the newest first)
RECURSIVE Ascending(_)
Ascending(S) ==
  IF S = {} THEN {<<>>}
  ELSE LET hi == CHOOSE x \in S : \A y \in S : y <= x
           rest == Ascending(S \ {hi})
       IN rest \cup {Append(b, hi) : b \in rest}

\* the tweet_create_events of a webhook body: any of the mentions in any
\* order (a redelivered event comes in the body of another invocation)
EventLists ==
  {s \in SeqsUpTo(MentionIds, MaxMention) :
     \A a \in 1..Len(s), b \in 1..Len(s) : a # b => s[a] # s[b]}

Cur(p) == batch[p][idx[p]]

IdleMentions ==
  /\ processed = {}
  /\ lastMentionId = 0
  /\ dubbed = [m \in MentionIds |-> 0]
  /\ kind = [p \in Procs |-> "idle"]
  /\ pc = [p \in Procs |-> "idle"]
  /\ batch = [p \in Procs |-> <<>>]
  /\ idx = [p \in Procs |-> 1]
  /\ sinceId = [p \in Procs |-> 0]
  /\ newestId = [p \in Procs |-> 0]
  /\ sawMarker = [p \in Procs |-> FALSE]

\* the loop `for (const m of mentions)` / `for (const tweet of events)`
\* moves on to the next element, or leaves the loop
Continue_pc(p, after) ==
  IF idx[p] < Len(batch[p]) THEN "check" ELSE after

NextMention(p, after) ==
  /\ pc' = [pc EXCEPT ![p] = Continue_pc(p, after)]
  /\ idx' = [idx EXCEPT ![p] = IF idx[p] < Len(batch[p]) THEN idx[p] + 1 ELSE idx[p]]

\* ----------------------------------------------------- doPollMentions
\* const processedTweetsRef = db.collection("processedTweets"): a root
\* collection, and the parent of a root collection is null
processedTweetsRef_parent == "null"

\* the document 'processing' next to the collection: no statement of the
\* code writes it, so a get() finds no document
processingDoc == [exists |-> FALSE, active |-> FALSE]

\* the guard at the head of doPollMentions
AlreadyProcessing ==
  /\ processedTweetsRef_parent # "null"
  /\ processingDoc.exists /\ processingDoc.active

\* pollMentions (scheduler) and pollMentionsHttp both call doPollMentions
\* if (processedTweetsRef && processedTweetsRef.parent) { processingDoc = ...;
\* if (processingDoc.exists && processingDoc.data().active) return; }
pollMentions(p) ==
  /\ kind[p] = "idle"
  /\ kind' = [kind EXCEPT ![p] = "poll"]
  /\ pc' = [pc EXCEPT ![p] = IF AlreadyProcessing THEN "done" ELSE "readState"]
  /\ UNCHANGED <<processed, lastMentionId, dubbed, batch, idx, sinceId,
                 newestId, sawMarker>>

\* const stateSnap = await stateRef.get().catch(() => undefined);
\* const sinceId = stateSnap?.exists ? stateSnap.data().lastMentionId : undefined
doPollMentions_ReadState(p) ==
  /\ kind[p] = "poll" /\ pc[p] = "readState"
  /\ \E ok \in BOOLEAN :
       sinceId' = [sinceId EXCEPT ![p] = IF ok THEN lastMentionId ELSE 0]
  /\ pc' = [pc EXCEPT ![p] = "timeline"]
  /\ UNCHANGED <<processed, lastMentionId, dubbed, kind, batch, idx,
                 newestId, sawMarker>>

\* timeline = await twitterClient.v2.userMentionTimeline(botId, params):
\* rate limited (429) or failing otherwise, the run ends; an empty page
\* ends it too; else the filtered page is iterated oldest first, with
\* let newestId = sinceId
doPollMentions_Timeline(p) ==
  /\ kind[p] = "poll" /\ pc[p] = "timeline"
  /\ \E r \in {"429", "error", "page"} :
       IF r = "page"
       THEN \E b \in Ascending({m \in MentionIds : m > sinceId[p]}) :
              /\ batch' = [batch EXCEPT ![p] = b]
              /\ pc' = [pc EXCEPT ![p] = IF b = <<>> THEN "done" ELSE "check"]
       ELSE /\ batch' = batch
            /\ pc' = [pc EXCEPT ![p] = "done"]
  /\ idx' = [idx EXCEPT ![p] = 1]
  /\ newestId' = [newestId EXCEPT ![p] = sinceId[p]]
  /\ UNCHANGED <<processed, lastMentionId, dubbed, kind, sinceId, sawMarker>>

\* mutant of doPollMentions_Check: the marker is looked up but a marked
\* mention is not skipped
doPollMentions_Check_noSkip(p) ==
  /\ kind[p] = "poll" /\ pc[p] = "check"
  /\ newestId' = [newestId EXCEPT ![p] = Cur(p)]
  /\ \E ok \in BOOLEAN :
       IF ~ok
       THEN pc' = [pc EXCEPT ![p] = "done"] /\ idx' = idx /\ sawMarker' = sawMarker
       ELSE /\ sawMarker' = [sawMarker EXCEPT ![p] = Cur(p) \in processed]
            /\ pc' = [pc EXCEPT ![p] = "extract"]
            /\ idx' = idx
  /\ UNCHANGED <<processed, lastMentionId, dubbed, kind, batch, sinceId>>

\* newestId = m.id; const tweetDoc = await processedTweetsRef.doc(m.id).get();
\* if (tweetDoc.exists) continue;   (a failing get ends the run in the
\* outer catch)
doPollMentions_Check(p) ==
  /\ kind[p] = "poll" /\ pc[p] = "check"
  /\ newestId' = [newestId EXCEPT ![p] = Cur(p)]
  /\ \E ok \in BOOLEAN :
       IF ~ok
       THEN pc' = [pc EXCEPT ![p] = "done"] /\ idx' = idx /\ sawMarker' = sawMarker
       ELSE IF Cur(p) \in processed
            THEN /\ sawMarker' = [sawMarker EXCEPT ![p] = TRUE]
                 /\ NextMention(p, "cursor")
            ELSE /\ sawMarker' = [sawMarker EXCEPT ![p] = FALSE]
                 /\ pc' = [pc EXCEPT ![p] = "extract"]
                 /\ idx' = idx
  /\ UNCHANGED <<processed, lastMentionId, dubbed, kind, batch, sinceId>>

\* parseMention(text); if (!tweetUrl) continue; getTwitterMedia(tweetUrl)
\* and writeFileSync; a failed download: continue
doPollMentions_Extract(p) ==
  /\ kind[p] = "poll" /\ pc[p] = "extract"
  /\ \E hasUrl \in BOOLEAN :
     \E downloaded \in (IF hasUrl THEN BOOLEAN ELSE {FALSE}) :
       IF hasUrl /\ downloaded
       THEN pc' = [pc EXCEPT ![p] = "dub"] /\ idx' = idx
       ELSE NextMention(p, "cursor")
  /\ UNCHANGED <<processed, lastMentionId, dubbed, kind, batch, sinceId,
                 newestId, sawMarker>>

\* const dubbedVideoUrl = await sendToMurf(videoPath, normalizedLanguage);
\* a throw is caught and logged (catch (murfError)), the file is unlinked
doPollMentions_Dub(p) ==
  /\ kind[p] = "poll" /\ pc[p] = "dub"
  /\ \E returned \in BOOLEAN :
       IF returned
       THEN pc' = [pc EXCEPT ![p] = "publish"] /\ idx' = idx
       ELSE NextMention(p, "cursor")
  /\ UNCHANGED <<processed, lastMentionId, dubbed, kind, batch, sinceId,
                 newestId, sawMarker>>

\* download the dubbed video, uploadMedia, tweet the reply with the media
\* (.catch(() => {}) on the tweet); a failed download or upload lands in
\* catch (murfError)
doPollMentions_Publish(p) ==
  /\ kind[p] = "poll" /\ pc[p] = "publish"
  /\ \E fetched \in BOOLEAN :
     \E uploaded \in (IF fetched THEN BOOLEAN ELSE {FALSE}) :
     \E tweeted \in (IF uploaded THEN BOOLEAN ELSE {FALSE}) :
       IF fetched /\ uploaded
       THEN /\ dubbed' = [dubbed EXCEPT ![Cur(p)] = @ + (IF tweeted THEN 1 ELSE 0)]
            /\ pc' = [pc EXCEPT ![p] = "mark"]
            /\ idx' = idx
       ELSE /\ dubbed' = dubbed
            /\ NextMention(p, "cursor")
  /\ UNCHANGED <<processed, lastMentionId, kind, batch, sinceId, newestId,
                 sawMarker>>

\* await processedTweetsRef.doc(m.id).set({status: "processed", ...})
doPollMentions_Mark(p) ==
  /\ kind[p] = "poll" /\ pc[p] = "mark"
  /\ \E ok \in BOOLEAN :
       processed' = IF ok THEN processed \cup {Cur(p)} ELSE processed
  /\ NextMention(p, "cursor")
  /\ UNCHANGED <<lastMentionId, dubbed, kind, batch, sinceId, newestId,
                 sawMarker>>

\* if (newestId && newestId !== sinceId)
\*   await stateRef.set({lastMentionId: newestId}, {merge: true});
doPollMentions_Cursor(p) ==
  /\ kind[p] = "poll" /\ pc[p] = "cursor"
  /\ IF newestId[p] # 0 /\ newestId[p] # sinceId[p]
     THEN \E ok \in BOOLEAN :
            lastMentionId' = IF ok THEN newestId[p] ELSE lastMentionId
     ELSE lastMentionId' = lastMentionId
  /\ pc' = [pc EXCEPT ![p] = "done"]
  /\ UNCHANGED <<processed, dubbed, kind, batch, idx, sinceId, newestId,
                 sawMarker>>

\* ------------------------------- twitterWebhook -> processMentionTweet
\* POST: await processWebhookEvent(req.body), which calls
\* processMentionTweet for each element of tweet_create_events; a body
\* without that list (the simplified shape too) iterates over nothing
twitterWebhook(p) ==
  /\ kind[p] = "idle"
  /\ kind' = [kind EXCEPT ![p] = "webhook"]
  /\ \E events \in EventLists :
       /\ batch' = [batch EXCEPT ![p] = events]
       /\ pc' = [pc EXCEPT ![p] = IF events = <<>> THEN "done" ELSE "check"]
  /\ UNCHANGED <<processed, lastMentionId, dubbed, idx, sinceId, newestId,
                 sawMarker>>

\* const tweetDoc = await processedTweetsRef.doc(tweetId).get();
\* if (tweetDoc.exists) return;   (a failing get is caught by the
\* function's outer catch, the event loop goes on)
processMentionTweet_Check(p) ==
  /\ kind[p] = "webhook" /\ pc[p] = "check"
  /\ \E ok \in BOOLEAN :
       IF ~ok
       THEN NextMention(p, "done") /\ sawMarker' = sawMarker
       ELSE IF Cur(p) \in processed
            THEN /\ sawMarker' = [sawMarker EXCEPT ![p] = TRUE]
                 /\ NextMention(p, "done")
            ELSE /\ sawMarker' = [sawMarker EXCEPT ![p] = FALSE]
                 /\ pc' = [pc EXCEPT ![p] = "extract"]
                 /\ idx' = idx
  /\ UNCHANGED <<processed, lastMentionId, dubbed, kind, batch, sinceId,
                 newestId>>

\* parseMention; without a tweetUrl reply and return; initial reply;
\* getTwitterMedia, axios download, writeFileSync; a failure goes to
\* catch (processingError)
processMentionTweet_Extract(p) ==
  /\ kind[p] = "webhook" /\ pc[p] = "extract"
  /\ \E hasUrl \in BOOLEAN :
     \E downloaded \in (IF hasUrl THEN BOOLEAN ELSE {FALSE}) :
       IF hasUrl /\ downloaded
       THEN pc' = [pc EXCEPT ![p] = "dub"] /\ idx' = idx
       ELSE NextMention(p, "done")
  /\ UNCHANGED <<processed, lastMentionId, dubbed, kind, batch, sinceId,
                 newestId, sawMarker>>

\* const dubbedVideoUrl = await sendToMurf(videoPath, normalizedLanguage)
processMentionTweet_Dub(p) ==
  /\ kind[p] = "webhook" /\ pc[p] = "dub"
  /\ \E returned \in BOOLEAN :
       IF returned
       THEN pc' = [pc EXCEPT ![p] = "publish"] /\ idx' = idx
       ELSE NextMention(p, "done")
  /\ UNCHANGED <<processed, lastMentionId, dubbed, kind, batch, sinceId,
                 newestId, sawMarker>>

\* download the dubbed video, uploadMedia, tweet the reply with the media
\* (.catch(() => {}) on the tweet)
processMentionTweet_Publish(p) ==
  /\ kind[p] = "webhook" /\ pc[p] = "publish"
  /\ \E fetched \in BOOLEAN :
     \E uploaded \in (IF fetched THEN BOOLEAN ELSE {FALSE}) :
     \E tweeted \in (IF uploaded THEN BOOLEAN ELSE {FALSE}) :
       IF fetched /\ uploaded
       THEN /\ dubbed' = [dubbed EXCEPT ![Cur(p)] = @ + (IF tweeted THEN 1 ELSE 0)]
            /\ pc' = [pc EXCEPT ![p] = "mark"]
            /\ idx' = idx
       ELSE /\ dubbed' = dubbed
            /\ NextMention(p, "done")
  /\ UNCHANGED <<processed, lastMentionId, kind, batch, sinceId, newestId,
                 sawMarker>>

\* await processedTweetsRef.doc(tweetId).set({status: "processed", ...})
processMentionTweet_Mark(p) ==
  /\ kind[p] = "webhook" /\ pc[p] = "mark"
  /\ \E ok \in BOOLEAN :
       processed' = IF ok THEN processed \cup {Cur(p)} ELSE processed
  /\ NextMention(p, "done")
  /\ UNCHANGED <<lastMentionId, dubbed, kind, batch, sinceId, newestId,
                 sawMarker>>

\* ------------------------------------------------------- handleMention
\* the first element of tweet_create_events, or the body itself when it
\* has a text; anything else is answered 400
handleMention(p) ==
  /\ kind[p] = "idle"
  /\ kind' = [kind EXCEPT ![p] = "mention"]
  /\ \E valid \in BOOLEAN, m \in MentionIds :
       IF valid
       THEN batch' = [batch EXCEPT ![p] = <<m>>] /\ pc' = [pc EXCEPT ![p] = "extract"]
       ELSE batch' = batch /\ pc' = [pc EXCEPT ![p] = "done"]
  /\ UNCHANGED <<processed, lastMentionId, dubbed, idx, sinceId, newestId,
                 sawMarker>>

\* parseMention; without a tweetUrl reply and answer 400; status tweet;
\* getTwitterMedia and writeFileSync; a failed download is answered 500
handleMention_Extract(p) ==
  /\ kind[p] = "mention" /\ pc[p] = "extract"
  /\ \E hasUrl \in BOOLEAN :
     \E downloaded \in (IF hasUrl THEN BOOLEAN ELSE {FALSE}) :
       pc' = [pc EXCEPT ![p] = IF hasUrl /\ downloaded THEN "dub" ELSE "done"]
  /\ UNCHANGED <<processed, lastMentionId, dubbed, kind, batch, idx, sinceId,
                 newestId, sawMarker>>

\* dubbedVideoUrl = await sendToMurf(videoPath, normalizedLanguage); a
\* throw is answered 500 after a failure tweet
handleMention_Dub(p) ==
  /\ kind[p] = "mention" /\ pc[p] = "dub"
  /\ \E returned \in BOOLEAN :
       pc' = [pc EXCEPT ![p] = IF returned THEN "publish" ELSE "done"]
  /\ UNCHANGED <<processed, lastMentionId, dubbed, kind, batch, idx, sinceId,
                 newestId, sawMarker>>

\* try { download the dubbed video, uploadMedia, tweet with the media }
\* catch { log }; res.json({success: true, ...})
handleMention_Publish(p) ==
  /\ kind[p] = "mention" /\ pc[p] = "publish"
  /\ \E fetched \in BOOLEAN :
     \E uploaded \in (IF fetched THEN BOOLEAN ELSE {FALSE}) :
     \E tweeted \in (IF uploaded THEN BOOLEAN ELSE {FALSE}) :
       dubbed' = [dubbed EXCEPT ![Cur(p)] =
                    @ + (IF fetched /\ uploaded /\ tweeted THEN 1 ELSE 0)]
  /\ pc' = [pc EXCEPT ![p] = "done"]
  /\ UNCHANGED <<processed, lastMentionId, kind, batch, idx, sinceId,
                 newestId, sawMarker>>

\* -------------------------------------------------- processTweetDirect
\* const tweetId = req.query.tweetId || req.body.tweetId; missing: 400
processTweetDirect(p) ==
  /\ kind[p] = "idle"
  /\ kind' = [kind EXCEPT ![p] = "direct"]
  /\ \E given \in BOOLEAN, m \in MentionIds :
       IF given
       THEN batch' = [batch EXCEPT ![p] = <<m>>] /\ pc' = [pc EXCEPT ![p] = "fetch"]
       ELSE batch' = batch /\ pc' = [pc EXCEPT ![p] = "done"]
  /\ UNCHANGED <<processed, lastMentionId, dubbed, idx, sinceId, newestId,
                 sawMarker>>

\* tweet = await twitterClient.v2.singleTweet(tweetId): a throw is answered
\* 500, no data 404, a text without the bot's handle 400
processTweetDirect_Fetch(p) ==
  /\ kind[p] = "direct" /\ pc[p] = "fetch"
  /\ \E r \in {"error", "not_found", "no_mention", "ok"} :
       pc' = [pc EXCEPT ![p] = IF r = "ok" THEN "extract" ELSE "done"]
  /\ UNCHANGED <<processed, lastMentionId, dubbed, kind, batch, idx, sinceId,
                 newestId, sawMarker>>

\* parseMention; initial reply; the video of the tweet's media or of the
\* parsed url is downloaded and written; a failure is answered 500
processTweetDirect_Extract(p) ==
  /\ kind[p] = "direct" /\ pc[p] = "extract"
  /\ \E downloaded \in BOOLEAN :
       pc' = [pc EXCEPT ![p] = IF downloaded THEN "dub" ELSE "done"]
  /\ UNCHANGED <<processed, lastMentionId, dubbed, kind, batch, idx, sinceId,
                 newestId, sawMarker>>

\* dubbedVideoUrl = await sendToMurf(videoPath, normalizedLanguage); a
\* throw is answered 500
processTweetDirect_Dub(p) ==
  /\ kind[p] = "direct" /\ pc[p] = "dub"
  /\ \E returned \in BOOLEAN :
       pc' = [pc EXCEPT ![p] = IF returned THEN "publish" ELSE "done"]
  /\ UNCHANGED <<processed, lastMentionId, dubbed, kind, batch, idx, sinceId,
                 newestId, sawMarker>>

\* try { download the dubbed video, uploadMedia, tweet with the media }
\* catch { log }; res.json({success: true, ...})
processTweetDirect_Publish(p) ==
  /\ kind[p] = "direct" /\ pc[p] = "publish"
  /\ \E fetched \in BOOLEAN :
     \E uploaded \in (IF fetched THEN BOOLEAN ELSE {FALSE}) :
     \E tweeted \in (IF uploaded THEN BOOLEAN ELSE {FALSE}) :
       dubbed' = [dubbed EXCEPT ![Cur(p)] =
                    @ + (IF fetched /\ uploaded /\ tweeted THEN 1 ELSE 0)]
  /\ pc' = [pc EXCEPT ![p] = "done"]
  /\ UNCHANGED <<processed, lastMentionId, kind, batch, idx, sinceId,
                 newestId, sawMarker>>

\* ======================================================================
\* The Language/URL Extractor: normalizeLanguage and parseMention
\* ======================================================================
\* Where the code looks inside a string (trim, toLowerCase, charAt, slice,
\* a regular expression) the string is spelled out as a sequence of
\* one-character strings.
LowerLetters ==
  <<"a", "b", "c", "d", "e", "f", "g", "h", "i", "j", "k", "l", "m", "n",
    "o", "p", "q", "r", "s", "t", "u", "v", "w", "x", "y", "z">>

UpperLetters ==
  <<"A", "B", "C", "D", "E", "F", "G", "H", "I", "J", "K", "L", "M", "N",
    "O", "P", "Q", "R", "S", "T", "U", "V", "W", "X", "Y", "Z">>

IndexIn(letters, c) == CHOOSE k \in 1..Len(letters) : letters[k] = c

toLowerCaseChar(c) ==
  IF \E k \in 1..Len(UpperLetters) : UpperLetters[k] = c
  THEN LowerLetters[IndexIn(UpperLetters, c)] ELSE c

toUpperCaseChar(c) ==
  IF \E k \in 1..Len(LowerLetters) : LowerLetters[k] = c
  THEN UpperLetters[IndexIn(LowerLetters, c)] ELSE c

RECURSIVE toLowerCase(_)
toLowerCase(s) ==
  IF s = <<>> THEN <<>> ELSE <<toLowerCaseChar(Head(s))>> \o toLowerCase(Tail(s))

RECURSIVE trimStart(_)
trimStart(s) ==
  IF s # <<>> /\ Head(s) = " " THEN trimStart(Tail(s)) ELSE s

RECURSIVE trimEnd(_)
trimEnd(s) ==
  IF s # <<>> /\ s[Len(s)] = " " THEN trimEnd(SubSeq(s, 1, Len(s) - 1)) ELSE s

\* String.prototype.trim
trim(s) == trimEnd(trimStart(s))

\* the string a spelling spells
RECURSIVE Join(_)
Join(s) == IF s = <<>> THEN "" ELSE Head(s) \o Join(Tail(s))

\* the strings the extractor is given to look inside
Spellings ==
  {<<"E", "n", "g", "l", "i", "s", "h">>, <<"S", "p", "a", "n", "i", "s", "h">>,
   <<"F", "r", "e", "n", "c", "h">>, <<"G", "e", "r", "m", "a", "n">>,
   <<"H", "i", "n", "d", "i">>, <<"J", "a", "p", "a", "n", "e", "s", "e">>,
   <<"K", "o", "r", "e", "a", "n">>, <<"C", "h", "i", "n", "e", "s", "e">>,
   <<"e", "n">>, <<"e", "s">>, <<"f", "r">>, <<"d", "e">>, <<"h", "i">>,
   <<"j", "a">>, <<"k", "o">>, <<"z", "h">>,
   <<"K", "O">>, <<" ", "k", "o", " ">>, <<"k", "o", "r", "e", "a", "n">>,
   <<"K", "l", "i", "n", "g", "o", "n">>, <<" ">>, <<"d", "u", "b">>,
   <<"c", "o", "n", "s", "t", "r", "u", "c", "t", "o", "r">>,
   <<"K", "O", "R", "E", "A", "N">>, <<" ", "K", "o", "r", "e", "a", "n", " ">>}

Spell(str) == CHOOSE c \in Spellings : Join(c) = str

\* index.js:231-240 / config/twitter.js:58-67  const isoToName
isoToName ==
  [c \in {"hi", "es", "fr", "de", "ja", "en", "ko", "zh"} |->
     CASE c = "hi" -> "Hindi"
       [] c = "es" -> "Spanish"
       [] c = "fr" -> "French"
       [] c = "de" -> "German"
       [] c = "ja" -> "Japanese"
       [] c = "en" -> "English"
       [] c = "ko" -> "Korean"
       [] c = "zh" -> "Chinese"]

\* mutant of normalizeLanguage: the isoToName table is not consulted
normalizeLanguage_noTable(input) ==
  IF input = undefined \/ input = "" THEN undefined
  ELSE LET trimmed == trim(Spell(input))
       IN IF trimmed = <<>> THEN ""
          ELSE Join(<<toUpperCaseChar(Head(trimmed))>> \o Tail(trimmed))

\* index.js:227-243: undefined for a falsy input; the table's name when the
\* trimmed, lower-cased input is a key of isoToName (an object literal, so
\* an inherited member answers too); else the trimmed input with its first
\* character in upper case
normalizeLanguage(input) ==
  IF input = undefined \/ input = "" THEN undefined
  ELSE LET trimmed == trim(Spell(input))
           lower == Join(toLowerCase(trimmed))
       IN IF Lookup(isoToName, lower) # undefined
          THEN Lookup(isoToName, lower)
          ELSE IF trimmed = <<>> THEN ""
               ELSE Join(<<toUpperCaseChar(Head(trimmed))>> \o Tail(trimmed))

\* ------------------------------------------------------------ parseMention
\* A mention text is a sequence of blank-separated items: words and links.
Words == {"dub", "ko", "KO", "hi"}

Links ==
  {"https://x.com/user/status/123", "http://twitter.com/a_b/status/9?s=20",
   "https://x.com/de/status/7", "https://example.com/v/1"}

Items == Words \cup Links

\* /https?:\/\/(?:x|twitter)\.com\/[A-Za-z0-9_]+\/status\/(\d+)/ on one
\* item: the matched part (urlMatch[0]), undefined without a match
urlMatchIn(item) ==
  CASE item = "https://x.com/user/status/123" -> item
    [] item = "http://twitter.com/a_b/status/9?s=20" ->
         "http://twitter.com/a_b/status/9"
    [] item = "https://x.com/de/status/7" -> item
    [] OTHER -> undefined

\* the alternatives of /\b(fr|de|es|hi|ja|en|ko|zh)\b/i
isoAlternatives == {"fr", "de", "es", "hi", "ja", "en", "ko", "zh"}

\* that expression on one item: the matched word as it is written
\* (isoGuess[0]); a link matches where a path segment is such a word
isoMatchIn(item) ==
  IF item \in Words
  THEN IF Join(toLowerCase(Spell(item))) \in isoAlternatives THEN item
       ELSE undefined
  ELSE IF item = "https://x.com/de/status/7" THEN "de" ELSE undefined

\* String.prototype.match without the g flag: the leftmost match
RECURSIVE FirstMatch(_, _)
FirstMatch(items, k) ==
  IF k > Len(items) THEN undefined
  ELSE IF urlMatchIn(items[k]) # undefined THEN urlMatchIn(items[k])
  ELSE FirstMatch(items, k + 1)

RECURSIVE FirstIso(_, _)
FirstIso(items, k) ==
  IF k > Len(items) THEN undefined
  ELSE IF isoMatchIn(items[k]) # undefined THEN isoMatchIn(items[k])
  ELSE FirstIso(items, k + 1)

\* the argument of parseMention: a string (its items), or a value that is
\* no string
StringText(items) == [isString |-> TRUE, items |-> items]
NonString == [isString |-> FALSE, items |-> <<>>]

TextInputs == {StringText(t) : t \in SeqsUpTo(Items, MaxText)} \cup {NonString}

\* how openai.chat.completions.create and the content it answers behave
Answer(out, lang, url) == [out |-> out, language |-> lang, tweetUrl |-> url]

ServiceLanguages ==
  DOMAIN LANGUAGE_MAP \cup DOMAIN isoToName
    \cup {undefined, "", " ", " ko ", "Klingon", "constructor"}
    \cup {"korean", "KOREAN", " Korean "}

ServiceUrls == {undefined, "", "https://x.com/svc/status/5"}

ServiceBehaviours ==
  {Answer(o, undefined, undefined) :
     o \in {"throws", "no_client", "no_content", "invalid_json", "null",
            "scalar"}}
  \cup {Answer("object", l, u) : l \in ServiceLanguages, u \in ServiceUrls}

Resolved(lang, url) == [kind |-> "return", language |-> lang, tweetUrl |-> url]
Raised == [kind |-> "throw", language |-> undefined, tweetUrl |-> undefined]

\* a || b for the values the fields take
OrElse(a, b) == IF a = undefined \/ a = "" THEN b ELSE a

\* mutant of InnerTry: the regex guesses are preferred to the answer
InnerTry_guessFirst(svc, iso, url) ==
  CASE svc.out \in {"no_content", "invalid_json", "null"} -> Raised
    [] svc.out = "scalar" -> Resolved(iso, url)
    [] OTHER -> Resolved(OrElse(iso, svc.language), OrElse(url, svc.tweetUrl))

\* index.js:275-281: JSON.parse(content) throws for content that is
\* undefined or no JSON; reading a field of null throws; a number or a
\* string has neither field
InnerTry(svc, iso, url) ==
  CASE svc.out \in {"no_content", "invalid_json", "null"} -> Raised
    [] svc.out = "scalar" -> Resolved(iso, url)
    [] OTHER -> Resolved(OrElse(svc.language, iso), OrElse(svc.tweetUrl, url))

\* index.js:282-284
InnerCatch(r, iso, url) ==
  IF r.kind = "throw" THEN Resolved(iso, url) ELSE r

\* index.js:264-285: the call raises (the request fails, openai is
\* undefined), or its content goes through the inner try
OuterTry(svc, iso, url) ==
  IF svc.out \in {"throws", "no_client"} THEN Raised
  ELSE InnerCatch(InnerTry(svc, iso, url), iso, url)

\* mutant of OuterCatch: the outer catch lets the error through
OuterCatch_rethrow(r, iso, url) == r

\* index.js:285-288
OuterCatch(r, iso, url) ==
  IF r.kind = "throw" THEN Resolved(iso, url) ELSE r

\* index.js:255-289
parseMention(txt, svc) ==
  IF ~txt.isString \/ txt.items = <<>> THEN Resolved(undefined, undefined)
  ELSE LET guessedUrl == FirstMatch(txt.items, 1)
           isoGuess == FirstIso(txt.items, 1)
       IN OuterCatch(OuterTry(svc, isoGuess, guessedUrl), isoGuess, guessedUrl)

NoExtract == [kind |-> "none", language |-> undefined, tweetUrl |-> undefined]

IdleExtract ==
  /\ text = NonString
  /\ service = Answer("throws", undefined, undefined)
  /\ xpc = "idle"
  /\ extracted = NoExtract
  /\ normalized = undefined

InitExtract ==
  /\ text \in TextInputs
  /\ service \in ServiceBehaviours
  /\ xpc = "start"
  /\ extracted = NoExtract
  /\ normalized = undefined

\* const {language: desiredLanguageRaw, tweetUrl} = await parseMention(text)
parseMention_Call ==
  /\ xpc = "start"
  /\ extracted' = parseMention(text, service)
  /\ xpc' = IF parseMention(text, service).kind = "throw" THEN "raised" ELSE "parsed"
  /\ UNCHANGED <<text, service, normalized>>

\* normalizeLanguage(desiredLanguageRaw), index.js:388, 570, 701, 932
normalizeLanguage_Call ==
  /\ xpc = "parsed"
  /\ normalized' = normalizeLanguage(extracted.language)
  /\ xpc' = "normalized"
  /\ UNCHANGED <<text, service, extracted>>

\* ======================================================================
\* One invocation of a mention handler, statement by statement
\* ======================================================================
Handlers ==
  {"handleMention", "processTweetDirect", "twitterWebhook", "doPollMentions"}

\* what parseMention can resolve to, over all texts and service behaviours
ExtractorResults ==
  {[language |-> parseMention(t, s).language,
    tweetUrl |-> parseMention(t, s).tweetUrl] :
     t \in TextInputs, s \in ServiceBehaviours}

NoRaw == [language |-> "none", tweetUrl |-> "none"]

\* mutant of Fallback: no fallback language
Fallback_none(l) == l

\* normalizeLanguage(desiredLanguageRaw) || "English"
Fallback(l) == OrElse(l, "English")

\* the handlers that iterate over a list of mentions
Looping == handler \in {"twitterWebhook", "doPollMentions"}

\* const m / const tweet / the mention of the request
Mention == mentions[pos]

locals ==
  <<raw, normalizedLanguage, video, handed, jobOutcome, published,
    replied>>

pollState == <<cursor, since, newest, failedIds, ending>>

ResetLocals ==
  /\ raw' = NoRaw
  /\ normalizedLanguage' = "none"
  /\ video' = "none"
  /\ handed' = "none"
  /\ jobOutcome' = "none"
  /\ published' = "none"
  /\ replied' = {}

\* ---- the inbound request
\* req.body: {tweet_create_events: [...]}, the simplified {id, text,
\* screen_name} (text possibly empty), or a body with neither
EventsBody(events) ==
  [shape |-> "events", events |-> events, id |-> 0, hasText |-> FALSE]
SimpleBody(id, hasText) ==
  [shape |-> "simple", events |-> <<>>, id |-> id, hasText |-> hasText]
EmptyBody ==
  [shape |-> "empty", events |-> <<>>, id |-> 0, hasText |-> FALSE]

Bodies ==
  {EventsBody(e) : e \in EventLists}
  \cup {SimpleBody(m, t) : m \in MentionIds, t \in BOOLEAN}
  \cup {EmptyBody}

\* req.method, req.query.crc_token, req.query.tweetId || req.body.tweetId
\* (0 when the request has none), req.body
Request(method, crc_token, tweetId, body) ==
  [method |-> method, crc_token |-> crc_token, tweetId |-> tweetId,
   body |-> body]

NoRequest == Request("none", undefined, 0, EmptyBody)

CrcTokens == {"tokenA", "tokenB"}

\* getConfig("API_KEY_SECRET", "twitter", "api_key_secret")
consumerSecret == "API_KEY_SECRET"

\* crypto.createHmac("sha256", key).update(msg).digest("base64"): the digest
\* is determined by the key and the message, and by nothing else
HmacSha256Base64(key, msg) ==
  [algorithm |-> "sha256", key |-> key, message |-> msg,
   encoding |-> "base64"]

\* no response_token in the response body
NoCrc == [prefix |-> "none", digest |-> HmacSha256Base64("none", "none")]

\* mutant of createCrcResponse: the digest is not keyed by the secret
createCrcResponse_unkeyed(crcToken) ==
  [prefix |-> "sha256=", digest |-> HmacSha256Base64("", crcToken)]

\* index.js:857-863: "sha256=" + hmac.digest("base64")
createCrcResponse(crcToken) ==
  [prefix |-> "sha256=", digest |-> HmacSha256Base64(consumerSecret, crcToken)]

\* the requests twitterWebhook is sent: the CRC challenge (GET with or
\* without a token), event deliveries (POST), and other methods
WebhookRequests ==
  {Request("GET", t, 0, b) :
     t \in CrcTokens \cup {undefined, ""}, b \in {EmptyBody, EventsBody(<<1>>)}}
  \cup {Request("POST", undefined, 0, b) : b \in Bodies}
  \cup {Request("POST", "tokenA", 0, EmptyBody)}
  \cup {Request("PUT", undefined, 0, b) : b \in {EmptyBody, EventsBody(<<1>>)}}

\* --- temporary files
\* path.join(os.tmpdir(), `video_${Date.now()}.mp4`) (index.js:400, 576,
\* 752, 946; config/twitter.js:314) and `video_${tweetId}.mp4`
\* (config/twitter.js:229): the source video of request p
VideoPath(p) == <<"video", p>>

\* config/twitter.js:177: path.join(os.tmpdir(), "dubbed.mp4"), one path
\* for every request
DubbedPath == <<"dubbed.mp4", 0>>

TmpPaths == {DubbedPath} \cup {VideoPath(p) : p \in Procs}

NoFiles == [f \in TmpPaths |-> 0]

\* the request SpecHandlers follows
ThisRequest == 1

\* fs.writeFileSync(path, data) / ytdlp(url, {output: path})
WriteFile(files, path, p) == [files EXCEPT ![path] = p]

\* fs.unlinkSync(path)
UnlinkFile(files, path) == [files EXCEPT ![path] = 0]

\* --- OAuth
\* the state values generateOAuth2AuthLink hands out
OAuthStates == {"stateA", "stateB"}

\* index.js:32: await dbRef.set({codeVerifier, state})
AfterAuth(st) ==
  [state |-> st, codeVerifier |-> "verifier", accessToken |-> undefined,
   refreshToken |-> undefined]

\* index.js:57: await dbRef.set({accessToken, refreshToken}), without merge
AfterLogin ==
  [state |-> undefined, codeVerifier |-> undefined, accessToken |-> "access",
   refreshToken |-> "refresh"]

\* const {state, code} = req.query
CallbackRequest(st, code) == [method |-> "GET", state |-> st, code |-> code]

\* --- the extension's endpoints (config/twitter.js)
\* const {tweetUrl, targetLanguage} = req.query / const {tweetId,
\* targetLanguage} = req.query
DubRequest(method, tweetUrl, tweetId, targetLanguage) ==
  [method |-> method, tweetUrl |-> tweetUrl, tweetId |-> tweetId,
   targetLanguage |-> targetLanguage]

\* targetLanguage as the extension may send it: none, a code, a name no
\* table has
DubLanguages == {undefined, "fr", "Klingon"}

\* config/twitter.js:284-288: function errorResponse(type, message, details)
\* ends with `return res.status(500).json({error})`; res is neither a
\* parameter of the function nor a binding of the module, so evaluating it
\* throws a ReferenceError and nothing is sent
errorResponse(type, message) ==
  [sent |-> "none", thrown |-> "ReferenceError", type |-> type,
   message |-> message]

IdleHandler ==
  /\ handler = "idle"
  /\ hpc = "idle"
  /\ mentions = <<>>
  /\ pos = 1
  /\ marked = {}
  /\ raw = NoRaw
  /\ normalizedLanguage = "none"
  /\ tweetMedia = FALSE
  /\ video = "none"
  /\ handed = "none"
  /\ jobs = {}
  /\ jobOutcome = "none"
  /\ published = "none"
  /\ replied = {}
  /\ response = "none"
  /\ error = "none"
  /\ request = NoRequest
  /\ crc = NoCrc
  /\ lookup = "none"
  /\ tmp = NoFiles
  /\ tokensDoc = AfterAuth("stateA")
  /\ cursor = 0
  /\ since = 0
  /\ newest = 0
  /\ failedIds = {}
  /\ ending = "none"

\* a handler about to be invoked, some mentions already marked as processed
InitHandler ==
  /\ handler = "idle"
  /\ hpc = "idle"
  /\ mentions = <<>>
  /\ pos = 1
  /\ marked \in SUBSET MentionIds
  /\ raw = NoRaw
  /\ normalizedLanguage = "none"
  /\ tweetMedia = FALSE
  /\ video = "none"
  /\ handed = "none"
  /\ jobs = {}
  /\ jobOutcome = "none"
  /\ published = "none"
  /\ replied = {}
  /\ response = "none"
  /\ error = "none"
  /\ request = NoRequest
  /\ crc = NoCrc
  /\ lookup = "none"
  /\ tmp = NoFiles
  /\ tokensDoc = AfterAuth("stateA")
  /\ cursor = 0
  /\ since = 0
  /\ newest = 0
  /\ failedIds = {}
  /\ ending = "none"

\* index.js:359-372: the first tweet_create_event, else the body itself
\* when it has a text, is the mention; without either, 400
handleMention_Receive ==
  /\ handler = "idle"
  /\ handler' = "handleMention"
  /\ \E body \in Bodies :
       /\ request' = Request("POST", undefined, 0, body)
       /\ IF body.shape = "events" /\ Len(body.events) > 0
          THEN /\ mentions' = <<body.events[1]>>
               /\ hpc' = "parse" /\ response' = response /\ error' = error
          ELSE IF body.shape = "simple" /\ body.hasText
          THEN /\ mentions' = <<body.id>>
               /\ hpc' = "parse" /\ response' = response /\ error' = error
          ELSE /\ mentions' = mentions /\ hpc' = "done"
               /\ response' = "400" /\ error' = "Invalid mention payload"
  /\ UNCHANGED <<crc, tmp, tokensDoc, lookup, pos, marked, tweetMedia, jobs, locals, pollState>>

\* what singleTweet(tweetId) can give: it throws, a response without data,
\* a tweet whose text does not name the bot, a tweet that names it
LookupOutcomes == {"throws", "not_found", "no_handle", "found"}

DirectAnswer(status, err) == [status |-> status, error |-> err]

\* mutant of AfterLookup: the text is not tested for the bot's handle
AfterLookup_noHandleTest(got) ==
  CASE got = "throws" -> DirectAnswer("500", "exception")
    [] got = "not_found" -> DirectAnswer("404", "Tweet not found or not accessible")
    [] OTHER -> DirectAnswer("none", "none")

\* index.js:683-696 and the catch at 814-817: the response sent right
\* after the lookup, none when the handler goes on
AfterLookup(got) ==
  CASE got = "throws" -> DirectAnswer("500", "exception")
    [] got = "not_found" -> DirectAnswer("404", "Tweet not found or not accessible")
    [] got = "no_handle" -> DirectAnswer("400", "Tweet doesn't mention the bot")
    [] OTHER -> DirectAnswer("none", "none")

\* index.js:664-696: tweetId, singleTweet, the tweet names the bot
processTweetDirect_Receive ==
  /\ handler = "idle"
  /\ handler' = "processTweetDirect"
  /\ \E tweetId \in MentionIds \cup {0} :
       /\ request' = Request("GET", undefined, tweetId, EmptyBody)
       /\ IF tweetId = 0
          THEN /\ hpc' = "done" /\ response' = "400"
               /\ error' = "Missing tweetId parameter"
               /\ UNCHANGED <<mentions, tweetMedia, lookup>>
          ELSE \E got \in LookupOutcomes :
                 /\ lookup' = got
                 /\ IF AfterLookup(got).status = "none"
                    THEN /\ mentions' = <<tweetId>> /\ hpc' = "parse"
                         /\ response' = response /\ error' = error
                         /\ tweetMedia' \in BOOLEAN
                    ELSE /\ hpc' = "done"
                         /\ response' = AfterLookup(got).status
                         /\ error' = AfterLookup(got).error
                         /\ UNCHANGED <<mentions, tweetMedia>>
  /\ UNCHANGED <<crc, tmp, tokensDoc, pos, marked, jobs, locals, pollState>>

\* index.js:832-845: the CRC challenge, the POST handed to
\* processWebhookEvent (876-880: for (const tweet of tweet_create_events),
\* nothing for a body without that field), any other request 400
twitterWebhook_Receive ==
  /\ handler = "idle"
  /\ handler' = "twitterWebhook"
  /\ \E req \in WebhookRequests :
       /\ request' = req
       /\ IF req.method = "GET" /\ req.crc_token \notin {undefined, ""}
          THEN /\ crc' = createCrcResponse(req.crc_token)
               /\ mentions' = mentions /\ hpc' = "done"
               /\ response' = "200" /\ error' = "none"
          ELSE IF req.method = "POST"
          THEN /\ crc' = crc
               /\ mentions' = IF req.body.shape = "events"
                              THEN req.body.events ELSE <<>>
               /\ IF req.body.shape = "events" /\ req.body.events # <<>>
                  THEN hpc' = "check" /\ response' = response /\ error' = error
                  ELSE hpc' = "done" /\ response' = "200" /\ error' = "none"
          ELSE /\ crc' = crc
               /\ mentions' = mentions /\ hpc' = "done"
               /\ response' = "400" /\ error' = "Invalid request method"
  /\ UNCHANGED <<lookup, tmp, tokensDoc, pos, marked, tweetMedia, jobs, locals,
                 pollState>>

\* index.js:468-470, 639-646 -> doPollMentions
doPollMentions_Enter ==
  /\ handler = "idle"
  /\ handler' = "doPollMentions"
  /\ hpc' = "readState"
  /\ UNCHANGED <<request, crc, tmp, tokensDoc, lookup, mentions, pos, marked, tweetMedia,
                 jobs, locals, response, error, pollState>>

\* index.js:497-498: the cursor as stored, undefined when the read fails
doPollMentions_State ==
  /\ handler = "doPollMentions" /\ hpc = "readState"
  /\ \E ok \in BOOLEAN : since' = IF ok THEN cursor ELSE 0
  /\ hpc' = "timeline"
  /\ UNCHANGED <<handler, request, crc, tmp, tokensDoc, lookup, mentions, pos, marked, tweetMedia, jobs, locals,
                 response, error, cursor, newest, failedIds, ending>>

\* mutant of doPollMentions_Page: a rate-limited timeline call is made again
doPollMentions_Page_retry ==
  /\ handler = "doPollMentions" /\ hpc = "timeline"
  /\ \E got \in {"rate_limited", "error", "empty", "page"} :
       IF got = "page"
       THEN /\ \E b \in Ascending({m \in MentionIds : m > since}) :
                 /\ mentions' = b
                 /\ hpc' = IF b = <<>> THEN "cursor" ELSE "check"
            /\ newest' = since
            /\ ending' = ending
       ELSE /\ ending' = IF got = "error" THEN "timeline_error" ELSE got
            /\ hpc' = IF got = "rate_limited" THEN "timeline" ELSE "done"
            /\ UNCHANGED <<mentions, newest>>
  /\ UNCHANGED <<handler, request, crc, tmp, tokensDoc, lookup, pos, marked, tweetMedia, jobs,
                 locals, response, error, cursor, since, failedIds>>

\* index.js:503-548: userMentionTimeline; 429: return; another error is
\* rethrown to the outer catch; no data: return; else the filtered page,
\* oldest first, and let newestId = sinceId
doPollMentions_Page ==
  /\ handler = "doPollMentions" /\ hpc = "timeline"
  /\ \E got \in {"rate_limited", "error", "empty", "page"} :
       IF got = "page"
       THEN /\ \E b \in Ascending({m \in MentionIds : m > since}) :
                 /\ mentions' = b
                 /\ hpc' = IF b = <<>> THEN "cursor" ELSE "check"
            /\ newest' = since
            /\ ending' = ending
       ELSE /\ ending' = IF got = "error" THEN "timeline_error" ELSE got
            /\ hpc' = "done"
            /\ UNCHANGED <<mentions, newest>>
  /\ UNCHANGED <<handler, request, crc, tmp, tokensDoc, lookup, pos, marked, tweetMedia, jobs, locals, response, error,
                 cursor, since, failedIds>>

\* index.js:550-562 (newestId = m.id; the marker read; exists: continue; a
\* failing read ends the run in the outer catch) and 911-918 (exists:
\* return; a failing read is caught by processMentionTweet's outer catch)
Mention_Check ==
  /\ Looping /\ hpc = "check"
  /\ newest' = IF handler = "doPollMentions" THEN Mention ELSE newest
  /\ \E ok \in BOOLEAN :
       IF ~ok
       THEN IF handler = "doPollMentions"
            THEN hpc' = "done" /\ ending' = "exception"
            ELSE hpc' = "next" /\ ending' = ending
       ELSE /\ hpc' = IF Mention \in marked THEN "next" ELSE "parse"
            /\ ending' = ending
  /\ UNCHANGED <<handler, request, crc, tmp, tokensDoc, lookup, mentions, pos, marked, tweetMedia, jobs, locals,
                 response, error, cursor, since, failedIds>>

\* index.js:377, 565, 699, 921: await parseMention(text)
Mention_Parse ==
  /\ hpc = "parse"
  /\ raw' \in ExtractorResults
  /\ hpc' = "parsed"
  /\ UNCHANGED <<handler, request, crc, tmp, tokensDoc, lookup, mentions, pos, marked, tweetMedia, jobs,
                 normalizedLanguage, video, handed, jobOutcome, published,
                 replied, response, error, pollState>>

\* if (!tweetUrl): handleMention replies and answers 400 (378-386),
\* doPollMentions continues without a reply (566-569), processMentionTweet
\* replies and returns (923-930), processTweetDirect has no such test;
\* then normalizedLanguage and, except in doPollMentions, the reply that
\* dubbing starts (388-398, 570-575, 701-713, 932-943)
Mention_Branch ==
  /\ hpc = "parsed"
  /\ IF raw.tweetUrl = undefined /\ handler # "processTweetDirect"
     THEN /\ normalizedLanguage' = normalizedLanguage
          /\ CASE handler = "handleMention" ->
                    /\ replied' = {"no_url"} /\ hpc' = "done"
                    /\ response' = "400"
                    /\ error' = "Missing tweet URL in mention"
               [] handler = "twitterWebhook" ->
                    replied' = {"no_url"} /\ response' = response /\ error' = error /\ hpc' = "next"
               [] OTHER ->
                    replied' = replied /\ response' = response /\ error' = error /\ hpc' = "next"
     ELSE /\ normalizedLanguage' = Fallback(normalizeLanguage(raw.language))
          /\ \E ack \in {"starting", "starting_failed"} :
               replied' = IF handler = "doPollMentions" THEN replied
                          ELSE {ack}
          /\ response' = response /\ error' = error
          /\ hpc' = "download"
  /\ UNCHANGED <<handler, request, crc, tmp, tokensDoc, lookup, mentions, pos, marked, tweetMedia, jobs, raw, video,
                 handed, jobOutcome, published, pollState>>

\* mutant of Mention_Download: a failed download does not end the mention
Mention_Download_goesOn ==
  /\ hpc = "download"
  /\ \E ok \in BOOLEAN : video' = IF ok THEN "ok" ELSE "failed"
  /\ hpc' = "submit"
  /\ tmp' = IF video' = "ok" THEN WriteFile(tmp, VideoPath(ThisRequest), ThisRequest) ELSE tmp
  /\ UNCHANGED <<handler, request, crc, tokensDoc, lookup, mentions, pos, marked,
                 tweetMedia, jobs, raw, normalizedLanguage, handed,
                 jobOutcome, published, replied, response, error, pollState>>

\* the media download: 400-414, 576-586, 716-759, 946-992; in
\* processTweetDirect from the tweet's own video, else from the parsed
\* link, else 'No video found'
Mention_Download ==
  /\ hpc = "download"
  /\ IF handler = "processTweetDirect" /\ ~tweetMedia /\ raw.tweetUrl = undefined
     THEN /\ video' = "no_video" /\ hpc' = "done"
          /\ response' = "500" /\ error' = "Failed to download video"
          /\ UNCHANGED <<replied, failedIds>>
     ELSE \E ok \in BOOLEAN :
            IF ok
            THEN /\ video' = "ok" /\ hpc' = "submit"
                 /\ UNCHANGED <<replied, response, error, failedIds>>
            ELSE /\ video' = "failed"
                 /\ CASE handler = "handleMention" ->
                           /\ replied' = replied \cup {"download_failed"}
                           /\ response' = "500" /\ hpc' = "done"
                           /\ error' = "Failed to download video"
                           /\ failedIds' = failedIds
                      [] handler = "processTweetDirect" ->
                           /\ replied' = replied
                           /\ response' = "500" /\ hpc' = "done"
                           /\ error' = "Failed to download video"
                           /\ failedIds' = failedIds
                      [] handler = "twitterWebhook" ->
                           /\ \E r \in {"download_failed", "dubbing_failed"} :
                                replied' = replied \cup {r}
                           /\ response' = response /\ error' = error /\ hpc' = "next"
                           /\ failedIds' = failedIds
                      [] OTHER ->
                           /\ replied' = replied
                           /\ response' = response /\ error' = error /\ hpc' = "next"
                           /\ failedIds' = failedIds \cup {Mention}
  /\ tmp' = IF video' = "ok" THEN WriteFile(tmp, VideoPath(ThisRequest), ThisRequest) ELSE tmp
  /\ UNCHANGED <<handler, request, crc, tokensDoc, lookup, mentions, pos, marked, tweetMedia, jobs, raw,
                 normalizedLanguage, handed, jobOutcome, published, cursor,
                 since, newest, ending>>

\* sendToMurf(videoPath, normalizedLanguage) is called (418, 588, 764,
\* 995): a language without locale throws at once, else a job is in flight
Mention_Submit ==
  /\ hpc = "submit"
  /\ handed' = normalizedLanguage
  /\ IF Lookup(LANGUAGE_MAP, normalizedLanguage) = undefined
     THEN jobOutcome' = "failed" /\ jobs' = jobs
     ELSE jobOutcome' = jobOutcome /\ jobs' = jobs \cup {Mention}
  /\ hpc' = "awaitJob"
  /\ UNCHANGED <<handler, request, crc, tmp, tokensDoc, lookup, mentions, pos, marked, tweetMedia, raw,
                 normalizedLanguage, video, published, replied, response, error,
                 pollState>>

\* the call ends: it returns a url or throws (failure, timeout)
sendToMurf_Ends ==
  /\ jobs # {}
  /\ \E m \in jobs, o \in {"url", "failed"} :
       /\ jobs' = jobs \ {m}
       /\ jobOutcome' = IF m = Mention THEN o ELSE jobOutcome
  /\ UNCHANGED <<handler, request, crc, tmp, tokensDoc, lookup, hpc, mentions, pos, marked, tweetMedia, raw,
                 normalizedLanguage, video, handed, published, replied,
                 response, error, pollState>>

\* mutant of AfterJob: in doPollMentions the error of sendToMurf leaves the
\* loop
AfterJob_leavesLoop(outcome) ==
  /\ tmp' = IF outcome = "failed" \/ ~Looping
            THEN UnlinkFile(tmp, VideoPath(ThisRequest)) ELSE tmp
  /\ IF outcome # "failed"
       THEN hpc' = "publish" /\ UNCHANGED <<replied, response, error, failedIds>>
       ELSE CASE handler = "handleMention" ->
                   /\ replied' = replied \cup {"dubbing_failed"}
                   /\ response' = "500" /\ hpc' = "done" /\ failedIds' = failedIds
                   /\ error' = "Murf processing failed"
              [] handler = "processTweetDirect" ->
                   /\ replied' = replied
                   /\ response' = "500" /\ hpc' = "done" /\ failedIds' = failedIds
                   /\ error' = "Murf processing failed"
              [] handler = "twitterWebhook" ->
                   /\ replied' = replied \cup {"dubbing_failed"}
                   /\ response' = response /\ error' = error /\ hpc' = "next" /\ failedIds' = failedIds
              [] OTHER ->
                   /\ replied' = replied
                   /\ response' = response /\ error' = error /\ hpc' = "done"
                   /\ failedIds' = failedIds \cup {Mention}

\* what follows a sendToMurf that threw: 420-426 (reply, 500), 766-768
\* (500), 615-617 (logged), 1034-1052 (reply)
AfterJob(outcome) ==
  /\ tmp' = IF outcome = "failed" \/ ~Looping
            THEN UnlinkFile(tmp, VideoPath(ThisRequest)) ELSE tmp
  /\ IF outcome # "failed"
       THEN hpc' = "publish" /\ UNCHANGED <<replied, response, error, failedIds>>
       ELSE CASE handler = "handleMention" ->
                   /\ replied' = replied \cup {"dubbing_failed"}
                   /\ response' = "500" /\ hpc' = "done" /\ failedIds' = failedIds
                   /\ error' = "Murf processing failed"
              [] handler = "processTweetDirect" ->
                   /\ replied' = replied
                   /\ response' = "500" /\ hpc' = "done" /\ failedIds' = failedIds
                   /\ error' = "Murf processing failed"
              [] handler = "twitterWebhook" ->
                   /\ replied' = replied \cup {"dubbing_failed"}
                   /\ response' = response /\ error' = error /\ hpc' = "next" /\ failedIds' = failedIds
              [] OTHER ->
                   /\ replied' = replied
                   /\ response' = response /\ error' = error /\ hpc' = "next"
                   /\ failedIds' = failedIds \cup {Mention}

\* mutant of Mention_Resume: the handler does not await the call
Mention_Resume_noAwait ==
  /\ hpc = "awaitJob"
  /\ AfterJob(jobOutcome)
  /\ UNCHANGED <<handler, request, crc, tokensDoc, lookup, mentions, pos, marked, tweetMedia, jobs, raw,
                 normalizedLanguage, video, handed, jobOutcome, published,
                 cursor, since, newest, ending>>

\* await sendToMurf(...): the handler goes on when the call has ended
Mention_Resume ==
  /\ hpc = "awaitJob"
  /\ Mention \notin jobs
  /\ AfterJob(jobOutcome)
  /\ UNCHANGED <<handler, request, crc, tokensDoc, lookup, mentions, pos, marked, tweetMedia, jobs, raw,
                 normalizedLanguage, video, handed, jobOutcome, published,
                 cursor, since, newest, ending>>

\* mutant of Mention_Publish: the marker is written whether or not the
\* result was fetched and uploaded
Mention_Publish_alwaysMark ==
  /\ hpc = "publish"
  /\ \E o \in {"ok", "fetch_failed", "tweet_failed"} :
       /\ published' = IF o = "ok" THEN "ok" ELSE "failed"
       /\ replied' =
            (replied \cup (IF o = "fetch_failed" THEN {} ELSE {"dubbed"}))
            \cup (IF o = "fetch_failed" /\ handler = "twitterWebhook"
                  THEN {"dubbing_failed"} ELSE {})
       /\ tmp' = IF Looping /\ o = "fetch_failed"
                 THEN UnlinkFile(tmp, VideoPath(ThisRequest)) ELSE tmp
       /\ IF Looping
          THEN /\ hpc' = "mark"
               /\ response' = response /\ error' = error
          ELSE /\ hpc' = "done"
               /\ response' = "200" /\ error' = "none"
  /\ UNCHANGED <<handler, request, crc, tokensDoc, lookup, mentions, pos, marked, tweetMedia, jobs, raw,
                 normalizedLanguage, video, handed, jobOutcome, pollState>>

\* the reply publisher: download the result, upload it, tweet the reply.
\* handleMention 435-462 and processTweetDirect 779-811: any failure is
\* logged, then the success response. doPollMentions 590-610: a failing
\* download or upload goes to the catch at 615 (logged), a failing tweet is
\* swallowed. processMentionTweet 997-1017: a failing download or upload
\* goes to the catch at 1034, which tweets a failure reply; a failing tweet
\* is swallowed.
Mention_Publish ==
  /\ hpc = "publish"
  /\ \E o \in {"ok", "fetch_failed", "tweet_failed"} :
       /\ published' = IF o = "ok" THEN "ok" ELSE "failed"
       /\ replied' =
            (replied \cup (IF o = "fetch_failed" THEN {} ELSE {"dubbed"}))
            \cup (IF o = "fetch_failed" /\ handler = "twitterWebhook"
                  THEN {"dubbing_failed"} ELSE {})
       /\ tmp' = IF Looping /\ o = "fetch_failed"
                 THEN UnlinkFile(tmp, VideoPath(ThisRequest)) ELSE tmp
       /\ IF Looping
          THEN /\ hpc' = IF o = "fetch_failed" THEN "next" ELSE "mark"
               /\ response' = response /\ error' = error
          ELSE /\ hpc' = "done"
               /\ response' = "200" /\ error' = "none"
  /\ UNCHANGED <<handler, request, crc, tokensDoc, lookup, mentions, pos, marked, tweetMedia, jobs, raw,
                 normalizedLanguage, video, handed, jobOutcome, pollState>>

\* processedTweetsRef.doc(id).set(...): 612-614, 1019-1026; a failing write
\* goes to the same catch as above
Mention_Mark ==
  /\ hpc = "mark"
  /\ \E ok \in BOOLEAN :
       IF ok
       THEN marked' = marked \cup {Mention} /\ replied' = replied
       ELSE /\ marked' = marked
            /\ replied' = IF handler = "twitterWebhook"
                          THEN replied \cup {"dubbing_failed"} ELSE replied
  /\ tmp' = UnlinkFile(tmp, VideoPath(ThisRequest))
  /\ hpc' = "next"
  /\ UNCHANGED <<handler, request, crc, tokensDoc, lookup, mentions, pos, tweetMedia, jobs, raw,
                 normalizedLanguage, video, handed, jobOutcome, published,
                 response, error, pollState>>

\* the loop goes to its next element, or ends: 549 and 626, 877-880 and 843
Mention_Next ==
  /\ hpc = "next"
  /\ IF pos < Len(mentions)
     THEN /\ pos' = pos + 1
          /\ hpc' = "check"
          /\ ResetLocals
          /\ response' = response /\ error' = error
     ELSE /\ pos' = pos
          /\ hpc' = IF handler = "doPollMentions" THEN "cursor" ELSE "done"
          /\ response' = IF handler = "doPollMentions" THEN response ELSE "200"
          /\ error' = error
          /\ UNCHANGED locals
  /\ UNCHANGED <<handler, request, crc, tmp, tokensDoc, lookup, mentions, marked, tweetMedia, jobs, pollState>>

\* index.js:626-629: if (newestId && newestId !== sinceId) the cursor is
\* set to newestId; a failing write ends in the outer catch
doPollMentions_WriteCursor ==
  /\ handler = "doPollMentions" /\ hpc = "cursor"
  /\ IF newest # 0 /\ newest # since
     THEN \E ok \in BOOLEAN :
            IF ok THEN cursor' = newest /\ ending' = "scanned"
            ELSE cursor' = cursor /\ ending' = "exception"
     ELSE cursor' = cursor /\ ending' = "scanned"
  /\ hpc' = "done"
  /\ UNCHANGED <<handler, request, crc, tmp, tokensDoc, lookup, mentions, pos, marked, tweetMedia, jobs, locals,
                 response, error, since, newest, failedIds>>

\* ------------------------------------------------------------- OAuth
\* index.js:26-35: auth stores a fresh {codeVerifier, state} and redirects
auth_Receive ==
  /\ handler = "idle"
  /\ handler' = "auth"
  /\ request' = CallbackRequest(undefined, undefined)
  /\ \E st \in OAuthStates, ok \in BOOLEAN :
       IF ok
       THEN tokensDoc' = AfterAuth(st) /\ response' = "302" /\ error' = error
       ELSE tokensDoc' = tokensDoc /\ response' = response /\ error' = "exception"
  /\ hpc' = "done"
  /\ UNCHANGED <<crc, lookup, tmp, mentions, pos, marked, tweetMedia, jobs,
                 locals, pollState>>

\* index.js:43-45: if (state !== storedState) res.status(400).send(...) has
\* no return: the statement after the if is reached either way
\* index.js:37-45: the query, the stored document, the comparison
callback_Receive ==
  /\ handler = "idle"
  /\ handler' = "callback"
  /\ \E st \in OAuthStates \cup {undefined}, code \in {"good", "bad"} :
       /\ request' = CallbackRequest(st, code)
       /\ \E ok \in BOOLEAN :
            IF ~ok
            THEN hpc' = "done" /\ response' = response /\ error' = "exception"
            ELSE /\ hpc' = "login"
                 /\ IF st # tokensDoc.state
                    THEN /\ response' = "400"
                         /\ error' = "Stored tokens do not match"
                    ELSE response' = response /\ error' = error
  /\ UNCHANGED <<crc, lookup, tmp, tokensDoc, mentions, pos, marked,
                 tweetMedia, jobs, locals, pollState>>

\* index.js:47-55: await twitterClient.loginWithOAuth2({code, codeVerifier,
\* redirectUri}); a rejected exchange rejects the handler
callback_Login ==
  /\ handler = "callback" /\ hpc = "login"
  /\ IF request.code = "good"
     THEN hpc' = "store" /\ error' = error
     ELSE hpc' = "done" /\ error' = IF response = "none" THEN "exception" ELSE error
  /\ UNCHANGED <<handler, request, crc, lookup, tmp, tokensDoc, mentions, pos,
                 marked, tweetMedia, jobs, locals, response, pollState>>

\* index.js:57-59: the tokens are stored, then res.redirect("https://x.com"),
\* which throws when a response was already sent
callback_Store ==
  /\ handler = "callback" /\ hpc = "store"
  /\ \E ok \in BOOLEAN :
       IF ok
       THEN /\ tokensDoc' = AfterLogin
            /\ IF response = "none"
               THEN response' = "302" /\ error' = error
               ELSE response' = response /\ error' = "ERR_HTTP_HEADERS_SENT"
       ELSE /\ tokensDoc' = tokensDoc /\ response' = response
            /\ error' = IF response = "none" THEN "exception" ELSE error
  /\ hpc' = "done"
  /\ UNCHANGED <<handler, request, crc, lookup, tmp, mentions, pos, marked,
                 tweetMedia, jobs, locals, pollState>>

\* ---------------------------------------------------------- dubVideo
\* config/twitter.js:290-310: the CORS preflight is answered 204; without
\* tweetUrl 400 VALIDATION_ERROR; else normalizeLanguage(targetLanguage) ||
\* "English"
dubVideo_Receive ==
  /\ handler = "idle"
  /\ handler' = "dubVideo"
  /\ \E m \in {"OPTIONS", "GET"}, url \in {undefined, "url"},
        lang \in DubLanguages :
       /\ request' = DubRequest(m, url, 0, lang)
       /\ IF m = "OPTIONS"
          THEN /\ hpc' = "done" /\ response' = "204" /\ error' = error
               /\ normalizedLanguage' = normalizedLanguage
          ELSE IF url = undefined
          THEN /\ hpc' = "done" /\ response' = "400"
               /\ error' = "VALIDATION_ERROR"
               /\ normalizedLanguage' = normalizedLanguage
          ELSE /\ hpc' = "dubDownload" /\ response' = response
               /\ error' = error
               /\ normalizedLanguage' = Fallback(normalizeLanguage(lang))
  /\ UNCHANGED <<crc, lookup, tokensDoc, mentions, pos, marked, tweetMedia, jobs, tmp, raw, video, handed,
                 jobOutcome, published, replied, pollState>>

\* config/twitter.js:314-328 and 357-379: ytdlp writes videoPath; when it
\* throws, the catch calls errorResponse, whose ReferenceError is caught by
\* the outer catch, which calls errorResponse again: the handler rejects
dubVideo_Download ==
  /\ handler = "dubVideo" /\ hpc = "dubDownload"
  /\ \E ok \in BOOLEAN :
       IF ok
       THEN /\ video' = "ok"
            /\ tmp' = WriteFile(tmp, VideoPath(ThisRequest), ThisRequest)
            /\ hpc' = "dubJob" /\ response' = response /\ error' = error
       ELSE /\ video' = "failed" /\ tmp' = tmp /\ hpc' = "done"
            /\ response' = errorResponse("DOWNLOAD_ERROR",
                                         "Failed to download video").sent
            /\ error' = errorResponse("NETWORK_ERROR",
                                      "An unexpected error occurred").thrown
  /\ UNCHANGED <<handler, request, crc, lookup, tokensDoc, mentions, pos, marked, tweetMedia, jobs, raw,
                 normalizedLanguage, handed, jobOutcome, published, replied,
                 pollState>>

\* config/twitter.js:330-356: sendToMurf; when it returns, videoPath is
\* unlinked and the success JSON is sent; when it throws, the catch calls
\* errorResponse (and the outer catch calls it again)
dubVideo_Job ==
  /\ handler = "dubVideo" /\ hpc = "dubJob"
  /\ handed' = normalizedLanguage
  /\ \E o \in {"url", "failed"} :
       /\ Lookup(LANGUAGE_MAP_twitter, normalizedLanguage) = undefined
            => o = "failed"
       /\ jobOutcome' = o
       /\ IF o = "url"
          THEN /\ tmp' = UnlinkFile(tmp, VideoPath(ThisRequest))
               /\ response' = "200" /\ error' = "none"
          ELSE /\ tmp' = tmp
               /\ response' = errorResponse("MURF_ERROR",
                                   "Failed to process video with Murf").sent
               /\ error' = errorResponse("NETWORK_ERROR",
                                   "An unexpected error occurred").thrown
  /\ hpc' = "done"
  /\ UNCHANGED <<handler, request, crc, lookup, tokensDoc, mentions, pos, marked, tweetMedia, jobs, raw,
                 normalizedLanguage, video, published, replied, pollState>>

\* ------------------------------------------------------ handleDubbing
\* config/twitter.js:197-226: without tweetId 400; the tweet lookup, the
\* media test and extractLanguageFromTweet throw into the catch at 243
\* (500 with the error's message)
handleDubbing_Receive ==
  /\ handler = "idle"
  /\ handler' = "handleDubbing"
  /\ \E id \in {0, ThisRequest}, lang \in DubLanguages,
        got \in {"throws", "no_media", "found"},
        extractedLang \in {"throws", "French"} :
       /\ request' = DubRequest("GET", undefined, id, lang)
       /\ IF id = 0
          THEN /\ hpc' = "done" /\ response' = "400"
               /\ error' = "Missing tweetId"
               /\ normalizedLanguage' = normalizedLanguage
          ELSE IF got # "found"
                  \/ (normalizeLanguage(lang) = undefined
                        /\ extractedLang = "throws")
          THEN /\ hpc' = "done" /\ response' = "500"
               /\ error' = "exception"
               /\ normalizedLanguage' = normalizedLanguage
          ELSE /\ hpc' = "hdDownload" /\ response' = response
               /\ error' = error
               /\ normalizedLanguage' = OrElse(normalizeLanguage(lang),
                                               extractedLang)
  /\ UNCHANGED <<crc, lookup, tokensDoc, mentions, pos, marked, tweetMedia, jobs, tmp, raw, video, handed,
                 jobOutcome, published, replied, pollState>>

\* config/twitter.js:229-233: ytdlp writes videoPath, then sendToMurf; a
\* throw of either goes to the catch at 243, which answers 500 and removes
\* nothing
handleDubbing_Job ==
  /\ handler = "handleDubbing" /\ hpc = "hdDownload"
  /\ \E ok \in BOOLEAN, o \in {"url", "failed"} :
       IF ~ok
       THEN /\ video' = "failed" /\ tmp' = tmp
            /\ handed' = handed /\ jobOutcome' = jobOutcome
            /\ hpc' = "done" /\ response' = "500" /\ error' = "exception"
       ELSE /\ video' = "ok"
            /\ tmp' = WriteFile(tmp, VideoPath(ThisRequest), ThisRequest)
            /\ handed' = normalizedLanguage
            /\ Lookup(LANGUAGE_MAP_twitter, normalizedLanguage) = undefined
                 => o = "failed"
            /\ jobOutcome' = o
            /\ IF o = "url"
               THEN hpc' = "hdReply" /\ response' = response /\ error' = error
               ELSE hpc' = "done" /\ response' = "500" /\ error' = "exception"
  /\ UNCHANGED <<handler, request, crc, lookup, tokensDoc, mentions, pos, marked, tweetMedia, jobs, raw,
                 normalizedLanguage, published, replied, pollState>>

\* config/twitter.js:176-194 and 237-246: replyWithDubbedVideo writes
\* dubbed.mp4, uploads it, replies, unlinks it, and then evaluates
\* functions.logger, where functions is no binding of the module: a
\* ReferenceError. Every way out of the call is a throw into the catch at
\* 243, so fs.unlinkSync(videoPath) at 240 and the success JSON at 242 are
\* never reached
handleDubbing_Reply ==
  /\ handler = "handleDubbing" /\ hpc = "hdReply"
  /\ \E o \in {"fetch_failed", "upload_failed", "tweet_failed", "tweeted"} :
       /\ tmp' = IF o = "fetch_failed" THEN tmp
                 ELSE IF o = "tweeted" THEN UnlinkFile(tmp, DubbedPath)
                 ELSE WriteFile(tmp, DubbedPath, ThisRequest)
       /\ published' = IF o = "tweeted" THEN "ok" ELSE "failed"
       /\ replied' = IF o \in {"tweet_failed", "tweeted"}
                     THEN replied \cup {"dubbed"} ELSE replied
       /\ error' = IF o = "tweeted" THEN "ReferenceError" ELSE "exception"
  /\ response' = "500"
  /\ hpc' = "done"
  /\ UNCHANGED <<handler, request, crc, lookup, tokensDoc, mentions, pos, marked, tweetMedia, jobs, raw,
                 normalizedLanguage, video, handed, jobOutcome, pollState>>

\* ----------------------------------- handleDubbing, requests interleaved
\* Requests served by one instance run as interleaved invocations that
\* share os.tmpdir(); an invocation gives way at each await.
\* config/twitter.js:199-203: without tweetId the request is answered 400
handleDubbing(p) ==
  /\ kind[p] = "idle"
  /\ kind' = [kind EXCEPT ![p] = "handleDubbing"]
  /\ \E given \in BOOLEAN :
       pc' = [pc EXCEPT ![p] = IF given THEN "lookup" ELSE "done"]
  /\ UNCHANGED <<processed, lastMentionId, dubbed, batch, idx, sinceId,
                 newestId, sawMarker, tmp>>

\* config/twitter.js:206-226: the tweet, its media, the language; a throw
\* is answered 500
handleDubbing_Lookup(p) ==
  /\ kind[p] = "handleDubbing" /\ pc[p] = "lookup"
  /\ \E ok \in BOOLEAN :
       pc' = [pc EXCEPT ![p] = IF ok THEN "download" ELSE "done"]
  /\ UNCHANGED <<processed, lastMentionId, dubbed, batch, idx, sinceId,
                 newestId, sawMarker, kind, tmp>>

\* config/twitter.js:229-230: await ytdlp(videoUrl, {output: videoPath})
handleDubbing_Download(p) ==
  /\ kind[p] = "handleDubbing" /\ pc[p] = "download"
  /\ \E ok \in BOOLEAN :
       IF ok
       THEN /\ tmp' = WriteFile(tmp, VideoPath(p), p)
            /\ pc' = [pc EXCEPT ![p] = "dub"]
       ELSE tmp' = tmp /\ pc' = [pc EXCEPT ![p] = "done"]
  /\ UNCHANGED <<processed, lastMentionId, dubbed, batch, idx, sinceId,
                 newestId, sawMarker, kind>>

\* config/twitter.js:233: await sendToMurf(videoPath, language)
handleDubbing_Dub(p) ==
  /\ kind[p] = "handleDubbing" /\ pc[p] = "dub"
  /\ \E returned \in BOOLEAN :
       pc' = [pc EXCEPT ![p] = IF returned THEN "fetch" ELSE "done"]
  /\ UNCHANGED <<processed, lastMentionId, dubbed, batch, idx, sinceId,
                 newestId, sawMarker, kind, tmp>>

\* config/twitter.js:177-181: the result is fetched, written to
\* os.tmpdir()/dubbed.mp4, and uploadMedia(tempFile) is called
replyWithDubbedVideo_Write(p) ==
  /\ kind[p] = "handleDubbing" /\ pc[p] = "fetch"
  /\ \E ok \in BOOLEAN :
       IF ok
       THEN /\ tmp' = WriteFile(tmp, DubbedPath, p)
            /\ pc' = [pc EXCEPT ![p] = "upload"]
       ELSE tmp' = tmp /\ pc' = [pc EXCEPT ![p] = "done"]
  /\ UNCHANGED <<processed, lastMentionId, dubbed, batch, idx, sinceId,
                 newestId, sawMarker, kind>>

\* config/twitter.js:181-183: uploadMedia opens and reads the file at the
\* path after it was called; a path without a file, or a failing upload,
\* throws
replyWithDubbedVideo_Upload(p) ==
  /\ kind[p] = "handleDubbing" /\ pc[p] = "upload"
  /\ \E ok \in BOOLEAN :
       pc' = [pc EXCEPT ![p] = IF ok /\ tmp[DubbedPath] # 0
                                THEN "reply" ELSE "done"]
  /\ UNCHANGED <<processed, lastMentionId, dubbed, batch, idx, sinceId,
                 newestId, sawMarker, kind, tmp>>

\* config/twitter.js:185-194: the reply is posted, then
\* fs.unlinkSync(tempFile), which throws when the file is gone; the call
\* ends in the catch of handleDubbing either way
replyWithDubbedVideo_Reply(p) ==
  /\ kind[p] = "handleDubbing" /\ pc[p] = "reply"
  /\ \E ok \in BOOLEAN :
       tmp' = IF ok THEN UnlinkFile(tmp, DubbedPath) ELSE tmp
  /\ pc' = [pc EXCEPT ![p] = "done"]
  /\ UNCHANGED <<processed, lastMentionId, dubbed, batch, idx, sinceId,
                 newestId, sawMarker, kind>>

\* config/twitter.js:202, 242-246: the response is sent and the invocation
\* is over; the instance goes on serving requests
handleDubbing_Respond(p) ==
  /\ kind[p] = "handleDubbing" /\ pc[p] = "done"
  /\ kind' = [kind EXCEPT ![p] = "idle"]
  /\ pc' = [pc EXCEPT ![p] = "idle"]
  /\ UNCHANGED <<processed, lastMentionId, dubbed, batch, idx, sinceId,
                 newestId, sawMarker, tmp>>

\* ------------------------------------------------------ specifications
\* the driver state while the producers run, and the producers' state
\* while the driver runs
IdleDriver ==
  /\ drv = "index"
  /\ language = "English"
  /\ mpc = "start"
  /\ i = 0
  /\ attempt = 1
  /\ createCalls = 0
  /\ statusCalls = 0
  /\ storageCalls = 0
  /\ result = NoResult
  /\ lastResp = NoResp
  /\ priorKinds = {}

Init == InitDriver /\ IdleMentions /\ IdleExtract /\ IdleHandler /\ IdleRetry

Next ==
  \/ LanguageCheck /\ UNCHANGED <<mentionVars, extractVars, handlerVars, retryVars>>
  \/ index_CreateJob /\ UNCHANGED <<mentionVars, extractVars, handlerVars, retryVars>>
  \/ index_Poll /\ UNCHANGED <<mentionVars, extractVars, handlerVars, retryVars>>
  \/ index_Exhausted /\ UNCHANGED <<mentionVars, extractVars, handlerVars, retryVars>>
  \/ twitter_CreateJob /\ UNCHANGED <<mentionVars, extractVars, handlerVars, retryVars>>
  \/ twitter_Poll /\ UNCHANGED <<mentionVars, extractVars, handlerVars, retryVars>>
  \/ twitter_Exhausted /\ UNCHANGED <<mentionVars, extractVars, handlerVars, retryVars>>
  \/ dubbing_SignedUrl /\ UNCHANGED <<mentionVars, extractVars, handlerVars, retryVars>>
  \/ dubbing_Submit /\ UNCHANGED <<mentionVars, extractVars, handlerVars, retryVars>>

Spec == Init /\ [][Next]_vars

InitMentions == IdleDriver /\ IdleMentions /\ IdleExtract /\ IdleHandler /\ IdleRetry

NextMentions ==
  \/ \E p \in Procs : pollMentions(p) /\ UNCHANGED <<driverVars, extractVars, handlerVars, retryVars>>
  \/ \E p \in Procs : doPollMentions_ReadState(p) /\ UNCHANGED <<driverVars, extractVars, handlerVars, retryVars>>
  \/ \E p \in Procs : doPollMentions_Timeline(p) /\ UNCHANGED <<driverVars, extractVars, handlerVars, retryVars>>
  \/ \E p \in Procs : doPollMentions_Check(p) /\ UNCHANGED <<driverVars, extractVars, handlerVars, retryVars>>
  \/ \E p \in Procs : doPollMentions_Extract(p) /\ UNCHANGED <<driverVars, extractVars, handlerVars, retryVars>>
  \/ \E p \in Procs : doPollMentions_Dub(p) /\ UNCHANGED <<driverVars, extractVars, handlerVars, retryVars>>
  \/ \E p \in Procs : doPollMentions_Publish(p) /\ UNCHANGED <<driverVars, extractVars, handlerVars, retryVars>>
  \/ \E p \in Procs : doPollMentions_Mark(p) /\ UNCHANGED <<driverVars, extractVars, handlerVars, retryVars>>
  \/ \E p \in Procs : doPollMentions_Cursor(p) /\ UNCHANGED <<driverVars, extractVars, handlerVars, retryVars>>
  \/ \E p \in Procs : twitterWebhook(p) /\ UNCHANGED <<driverVars, extractVars, handlerVars, retryVars>>
  \/ \E p \in Procs : processMentionTweet_Check(p) /\ UNCHANGED <<driverVars, extractVars, handlerVars, retryVars>>
  \/ \E p \in Procs : processMentionTweet_Extract(p) /\ UNCHANGED <<driverVars, extractVars, handlerVars, retryVars>>
  \/ \E p \in Procs : processMentionTweet_Dub(p) /\ UNCHANGED <<driverVars, extractVars, handlerVars, retryVars>>
  \/ \E p \in Procs : processMentionTweet_Publish(p) /\ UNCHANGED <<driverVars, extractVars, handlerVars, retryVars>>
  \/ \E p \in Procs : processMentionTweet_Mark(p) /\ UNCHANGED <<driverVars, extractVars, handlerVars, retryVars>>
  \/ \E p \in Procs : handleMention(p) /\ UNCHANGED <<driverVars, extractVars, handlerVars, retryVars>>
  \/ \E p \in Procs : handleMention_Extract(p) /\ UNCHANGED <<driverVars, extractVars, handlerVars, retryVars>>
  \/ \E p \in Procs : handleMention_Dub(p) /\ UNCHANGED <<driverVars, extractVars, handlerVars, retryVars>>
  \/ \E p \in Procs : handleMention_Publish(p) /\ UNCHANGED <<driverVars, extractVars, handlerVars, retryVars>>
  \/ \E p \in Procs : processTweetDirect(p) /\ UNCHANGED <<driverVars, extractVars, handlerVars, retryVars>>
  \/ \E p \in Procs : processTweetDirect_Fetch(p) /\ UNCHANGED <<driverVars, extractVars, handlerVars, retryVars>>
  \/ \E p \in Procs : processTweetDirect_Extract(p) /\ UNCHANGED <<driverVars, extractVars, handlerVars, retryVars>>
  \/ \E p \in Procs : processTweetDirect_Dub(p) /\ UNCHANGED <<driverVars, extractVars, handlerVars, retryVars>>
  \/ \E p \in Procs : processTweetDirect_Publish(p) /\ UNCHANGED <<driverVars, extractVars, handlerVars, retryVars>>

SpecMentions == InitMentions /\ [][NextMentions]_vars

InitExtractor == IdleDriver /\ IdleMentions /\ InitExtract /\ IdleHandler /\ IdleRetry

NextExtractor ==
  \/ parseMention_Call /\ UNCHANGED <<driverVars, mentionVars, handlerVars, retryVars>>
  \/ normalizeLanguage_Call /\ UNCHANGED <<driverVars, mentionVars, handlerVars, retryVars>>

SpecExtractor == InitExtractor /\ [][NextExtractor]_vars

InitRetrying == IdleDriver /\ IdleMentions /\ IdleExtract /\ IdleHandler /\ InitRetry

NextRetry ==
  \/ retryOperation_Attempt /\ UNCHANGED <<driverVars, mentionVars, extractVars, handlerVars>>
  \/ retryOperation_LoopEnd /\ UNCHANGED <<driverVars, mentionVars, extractVars, handlerVars>>

SpecRetry == InitRetrying /\ [][NextRetry]_vars

InitHandlers == IdleDriver /\ IdleMentions /\ IdleExtract /\ InitHandler /\ IdleRetry

NextHandlers ==
  \/ handleMention_Receive /\ UNCHANGED <<driverVars, mentionVars, extractVars, retryVars>>
  \/ processTweetDirect_Receive /\ UNCHANGED <<driverVars, mentionVars, extractVars, retryVars>>
  \/ twitterWebhook_Receive /\ UNCHANGED <<driverVars, mentionVars, extractVars, retryVars>>
  \/ doPollMentions_Enter /\ UNCHANGED <<driverVars, mentionVars, extractVars, retryVars>>
  \/ doPollMentions_State /\ UNCHANGED <<driverVars, mentionVars, extractVars, retryVars>>
  \/ doPollMentions_Page /\ UNCHANGED <<driverVars, mentionVars, extractVars, retryVars>>
  \/ Mention_Check /\ UNCHANGED <<driverVars, mentionVars, extractVars, retryVars>>
  \/ Mention_Parse /\ UNCHANGED <<driverVars, mentionVars, extractVars, retryVars>>
  \/ Mention_Branch /\ UNCHANGED <<driverVars, mentionVars, extractVars, retryVars>>
  \/ Mention_Download /\ UNCHANGED <<driverVars, mentionVars, extractVars, retryVars>>
  \/ Mention_Submit /\ UNCHANGED <<driverVars, mentionVars, extractVars, retryVars>>
  \/ sendToMurf_Ends /\ UNCHANGED <<driverVars, mentionVars, extractVars, retryVars>>
  \/ Mention_Resume /\ UNCHANGED <<driverVars, mentionVars, extractVars, retryVars>>
  \/ Mention_Publish /\ UNCHANGED <<driverVars, mentionVars, extractVars, retryVars>>
  \/ Mention_Mark /\ UNCHANGED <<driverVars, mentionVars, extractVars, retryVars>>
  \/ Mention_Next /\ UNCHANGED <<driverVars, mentionVars, extractVars, retryVars>>
  \/ doPollMentions_WriteCursor /\ UNCHANGED <<driverVars, mentionVars, extractVars, retryVars>>
  \/ dubVideo_Receive /\ UNCHANGED <<driverVars, mentionVars, extractVars, retryVars>>
  \/ dubVideo_Download /\ UNCHANGED <<driverVars, mentionVars, extractVars, retryVars>>
  \/ dubVideo_Job /\ UNCHANGED <<driverVars, mentionVars, extractVars, retryVars>>
  \/ handleDubbing_Receive /\ UNCHANGED <<driverVars, mentionVars, extractVars, retryVars>>
  \/ handleDubbing_Job /\ UNCHANGED <<driverVars, mentionVars, extractVars, retryVars>>
  \/ handleDubbing_Reply /\ UNCHANGED <<driverVars, mentionVars, extractVars, retryVars>>
  \/ auth_Receive /\ UNCHANGED <<driverVars, mentionVars, extractVars, retryVars>>
  \/ callback_Receive /\ UNCHANGED <<driverVars, mentionVars, extractVars, retryVars>>
  \/ callback_Login /\ UNCHANGED <<driverVars, mentionVars, extractVars, retryVars>>
  \/ callback_Store /\ UNCHANGED <<driverVars, mentionVars, extractVars, retryVars>>

SpecHandlers == InitHandlers /\ [][NextHandlers]_vars

InitDubbing == IdleDriver /\ IdleMentions /\ IdleExtract /\ IdleHandler /\ IdleRetry

NextDubbing ==
  \/ \E p \in Procs : handleDubbing(p) /\ UNCHANGED <<driverVars, extractVars, handlerRest, retryVars>>
  \/ \E p \in Procs : handleDubbing_Lookup(p) /\ UNCHANGED <<driverVars, extractVars, handlerRest, retryVars>>
  \/ \E p \in Procs : handleDubbing_Download(p) /\ UNCHANGED <<driverVars, extractVars, handlerRest, retryVars>>
  \/ \E p \in Procs : handleDubbing_Dub(p) /\ UNCHANGED <<driverVars, extractVars, handlerRest, retryVars>>
  \/ \E p \in Procs : replyWithDubbedVideo_Write(p) /\ UNCHANGED <<driverVars, extractVars, handlerRest, retryVars>>
  \/ \E p \in Procs : replyWithDubbedVideo_Upload(p) /\ UNCHANGED <<driverVars, extractVars, handlerRest, retryVars>>
  \/ \E p \in Procs : replyWithDubbedVideo_Reply(p) /\ UNCHANGED <<driverVars, extractVars, handlerRest, retryVars>>
  \/ \E p \in Procs : handleDubbing_Respond(p) /\ UNCHANGED <<driverVars, extractVars, handlerRest, retryVars>>

SpecDubbing == InitDubbing /\ [][NextDubbing]_vars

\* ======================================================================
\* Claims about the Dubbing Job Driver (checked under Spec)
\* ======================================================================
Polling == drv \in {"index", "twitter"}

\* the first entry of a download_details list that has a download_url,
\* stated without the driver's own search
IsFirstUrl(resp, u) ==
  /\ resp.has_details
  /\ \E k \in 1..Len(resp.download_details) :
       /\ resp.download_details[k] = u
       /\ u # undefined
       /\ \A j \in 1..(k - 1) : resp.download_details[j] = undefined

CompletedWithUrl(resp) ==
  /\ ~resp.net
  /\ resp.status = "COMPLETED"
  /\ \E u \in Urls : IsFirstUrl(resp, u)

CompletedWithoutUrl(resp) ==
  /\ ~resp.net
  /\ resp.status = "COMPLETED"
  /\ ~(\E u \in Urls : IsFirstUrl(resp, u))

NoNetworkCall == createCalls = 0 /\ statusCalls = 0 /\ storageCalls = 0

\* C1: in every driver, a language that has no entry in the driver's
\* language table makes the call fail with 'Unsupported language', and no
\* network call (job creation, status, signed URL) has been issued.
C1_UnsupportedBeforeAnyCall ==
  (language \notin DOMAIN DriverMap(drv)) =>
     /\ NoNetworkCall
     /\ mpc \in {"start", "thrown"}
     /\ (mpc = "thrown" => result = UnsupportedLanguage(language))

\* C2: when polls 1..k-1 answer PENDING/RUNNING and poll k answers
\* COMPLETED with an entry that has a download_url, sendToMurf returns the
\* first such entry's url, after exactly k status calls, k in 1..120.
C2_CompletedOnPollK ==
  (Polling /\ priorKinds = {} /\ CompletedWithUrl(lastResp)) =>
     /\ mpc = "returned"
     /\ result.kind = "return"
     /\ IsFirstUrl(lastResp, result.url)
     /\ statusCalls = i + 1
     /\ statusCalls \in 1..120

C2_Witness ==
  /\ Polling /\ priorKinds = {} /\ CompletedWithUrl(lastResp)
  /\ mpc = "returned"
  /\ statusCalls = 6
  /\ Len(lastResp.download_details) = 1

\* C3: when every poll answers PENDING/RUNNING, sendToMurf never returns,
\* throws only the Timeout error, throws it after exactly 120 status
\* calls, and never issues a 121st.
C3_TimeoutAfter120 ==
  (Polling /\ priorKinds = {} /\ Kind(lastResp) = "nonterminal") =>
     /\ statusCalls <= 120
     /\ mpc \in {"poll", "thrown"}
     /\ (mpc = "thrown" => result = TimeoutError /\ statusCalls = 120)
     /\ (mpc = "poll" => statusCalls = i)

C3_Witness ==
  /\ Polling /\ priorKinds = {} /\ Kind(lastResp) = "nonterminal"
  /\ mpc = "thrown"
  /\ result = TimeoutError
  /\ statusCalls = 120

\* C4: a poll that answers COMPLETED without any entry that has a
\* download_url makes sendToMurf fail with the 'completed but no download
\* details' error: it does not go on polling.
C4_CompletedWithoutDetailsFails ==
  (Polling /\ CompletedWithoutUrl(lastResp)) =>
     /\ mpc = "thrown"
     /\ result = NoDownloadDetails

\* C5: a poll that answers FAILED makes sendToMurf fail with the vendor's
\* failure_reason ('Unknown error' when absent); the caller does not get
\* Timeout.
C5_FailedSurfacesReason ==
  (Polling /\ ~lastResp.net /\ lastResp.status = "FAILED") =>
     /\ mpc = "thrown"
     /\ result = DubbingFailed(lastResp.failure_reason)

\* C6: terminal states are absorbing: no status call follows a poll that
\* observed COMPLETED or FAILED, and a job observed FAILED never ends as
\* COMPLETED (a returned url) or TIMED_OUT.
C6_TerminalAbsorbing ==
  Polling =>
     /\ priorKinds \cap {"COMPLETED", "FAILED"} = {}
     /\ ("FAILED" \in priorKinds \cup Recorded(lastResp) =>
           mpc # "returned" /\ result # TimeoutError)

\* C7: a status poll that raises a network error never aborts the job: the
\* loop goes on (the only error that can follow is Timeout, at the end of
\* the budget), and a later poll within the budget that answers COMPLETED
\* with a download url makes sendToMurf return that url.
C7_NetworkErrorsDoNotAbort ==
  Polling =>
     /\ (lastResp.net =>
           /\ mpc \in {"poll", "thrown"}
           /\ (mpc = "thrown" => result = TimeoutError /\ statusCalls = 120))
     /\ ("net" \in priorKinds /\ CompletedWithUrl(lastResp) =>
           /\ mpc = "returned"
           /\ IsFirstUrl(lastResp, result.url)
           /\ statusCalls <= 120)

C7_Witness ==
  /\ Polling
  /\ priorKinds = {"net"}
  /\ CompletedWithUrl(lastResp)
  /\ mpc = "returned"
  /\ result.kind = "return"

\* C8: one call of any sendToMurf driver sends at most one job-creation
\* request, also when that request fails.
C8_SubmissionNotDuplicated ==
  createCalls <= 1

\* what sendToMurf throws when the job-creation request fails
SubmissionErrors == {RequestFailed(r) : r \in CreateResponses \ {"ok"}}

\* C21: status calls happen only after a successful submission: the job is
\* submitted exactly once, a status request is issued only after the
\* job-creation request was answered, and a failing job-creation request
\* makes sendToMurf fail with the submission error and zero status
\* requests.
C21_StatusOnlyAfterSubmission ==
  /\ statusCalls > 0 => (createCalls = 1 /\ result \notin SubmissionErrors)
  /\ result \in SubmissionErrors => (mpc = "thrown" /\ statusCalls = 0)
  /\ Polling =>
       /\ createCalls <= 1
       /\ (mpc \in {"poll", "returned"} => createCalls = 1)
       /\ (createCalls = 1 => mpc \in {"poll", "returned", "thrown"})
       /\ (createCalls = 1 /\ statusCalls = 0 /\ mpc = "thrown" =>
             result \in SubmissionErrors)

C21_Witness ==
  /\ Polling
  /\ mpc = "thrown"
  /\ result = RequestFailed("http_error")
  /\ createCalls = 1
  /\ statusCalls = 0

\* C23: a Timeout is surfaced distinctly from a VendorFailed: the error the
\* caller of sendToMurf gets for a job the vendor reported FAILED is not
\* the error it gets for a job that never reached a terminal status.
C23_TimeoutDistinctFromVendorFailed ==
  (Polling /\ mpc = "thrown" /\ "FAILED" \in priorKinds \cup Recorded(lastResp)) =>
     result # TimeoutError

\* ======================================================================
\* Claims about the retry helper (checked under SpecRetry)
\* ======================================================================
DefaultArguments ==
  rMaxRetries = retryMaxRetries /\ rDelayMs = retryDelayMs

\* C22: with default arguments retryOperation calls the operation at most
\* 3 times; it returns the result of the first successful attempt and makes
\* no further attempt; it waits 1000 ms after the first failure and 2000 ms
\* after the second; it rethrows the error of the third failed attempt; and
\* an error whose code is VALIDATION_ERROR is rethrown at once, without a
\* wait and without another attempt.
C22_RetryThreeAttemptsBackoff ==
  DefaultArguments =>
     /\ rCalls <= 3
     /\ rWaits = SubSeq(<<1000, 2000>>, 1, Len(rWaits))
     /\ (rpc = "loop" => rCalls = Len(rErrors) /\ Len(rWaits) = rCalls /\ rCalls < 3)
     /\ (rpc = "returned" =>
           /\ rResult = Returned(rCalls)
           /\ rCalls = Len(rErrors) + 1
           /\ Len(rWaits) = Len(rErrors))
     /\ (rpc = "thrown" =>
           /\ rCalls = Len(rErrors) /\ rCalls >= 1
           /\ rResult = Rethrown(rErrors[rCalls], rCalls)
           /\ Len(rWaits) = rCalls - 1
           /\ (rCalls = 3 \/ rErrors[rCalls] = "VALIDATION_ERROR"))
     /\ \A k \in 1..Len(rErrors) :
           rErrors[k] = "VALIDATION_ERROR" =>
              /\ rpc = "thrown"
              /\ rCalls = k
              /\ Len(rWaits) = k - 1

C22_Witness ==
  /\ DefaultArguments
  /\ rpc = "thrown"
  /\ rCalls = 3
  /\ rWaits = <<1000, 2000>>
  /\ rResult = Rethrown("TWITTER_API_ERROR", 3)

\* ======================================================================
\* Claims about the mention producers (checked under SpecMentions)
\* ======================================================================

\* C9: in a poll cycle and in webhook processing, a mention whose id has a
\* ProcessedMarker when it is examined is skipped: the invocation does not
\* enter the extractor, the download, the dub job or the reply for it, it
\* goes on to the next mention or leaves the loop.
C9_MarkedMentionSkipped ==
  \A p \in Procs :
    (kind[p] \in {"poll", "webhook"} /\ sawMarker[p]) =>
       pc[p] \in {"check", "cursor", "done"}

C9_Witness ==
  \E p \in Procs, q \in Procs :
    /\ kind[p] = "poll" /\ sawMarker[p] /\ pc[p] = "done"
    /\ kind[q] = "webhook" /\ sawMarker[q] /\ pc[q] = "done"

\* C10: at most one dubbed-video reply is posted per mention id, whatever
\* producers deliver the mention and however their invocations interleave.
C10_AtMostOneDubbedReply ==
  \A m \in MentionIds : dubbed[m] <= 1

\* C11: the persisted cursor only advances: every write to state/bot sets
\* lastMentionId to an id that is not older than the value stored
\* immediately before the write, also when doPollMentions runs overlap.
C11_CursorOnlyAdvances ==
  [][lastMentionId' >= lastMentionId]_vars

\* ======================================================================
\* Claims about the language tables (checked under Spec)
\* ======================================================================
\* the supported language table as the interface section lists it
SupportedLocales ==
  [l \in {"English", "Spanish", "French", "German", "Hindi", "Japanese",
          "Korean", "Chinese"} |->
     CASE l = "English" -> "en_US"
       [] l = "Spanish" -> "es_ES"
       [] l = "French" -> "fr_FR"
       [] l = "German" -> "de_DE"
       [] l = "Hindi" -> "hi_IN"
       [] l = "Japanese" -> "ja_JP"
       [] l = "Korean" -> "ko_KR"
       [] l = "Chinese" -> "zh_CN"]

IsUrlGuess(items, u) ==
  IF u = undefined
  THEN \A k \in 1..Len(items) : urlMatchIn(items[k]) = undefined
  ELSE \E k \in 1..Len(items) :
         /\ urlMatchIn(items[k]) = u
         /\ \A j \in 1..(k - 1) : urlMatchIn(items[j]) = undefined

\* l is the leftmost two-letter language code of the items, as written
IsIsoGuess(items, l) ==
  IF l = undefined
  THEN \A k \in 1..Len(items) : isoMatchIn(items[k]) = undefined
  ELSE \E k \in 1..Len(items) :
         /\ isoMatchIn(items[k]) = l
         /\ \A j \in 1..(k - 1) : isoMatchIn(items[j]) = undefined

ServiceFails ==
  service.out \in {"throws", "no_client", "no_content", "invalid_json", "null"}

Parsed == xpc \in {"parsed", "normalized"}

Present(v) == v # undefined /\ v # ""

\* C13: parseMention never raises: for every text (empty, no string, with
\* or without link and code) and every behaviour of the service it
\* resolves to {language, tweetUrl}; when the call or its parse fails the
\* fields are exactly the regex guesses, undefined without a match.
C13_ParseMentionNeverRaises ==
  /\ xpc # "raised"
  /\ Parsed =>
       /\ extracted.kind = "return"
       /\ (ServiceFails \/ ~text.isString \/ text.items = <<>>) =>
             /\ IsIsoGuess(text.items, extracted.language)
             /\ IsUrlGuess(text.items, extracted.tweetUrl)

C13_Witness ==
  /\ xpc = "parsed"
  /\ service.out = "throws"
  /\ text = StringText(<<"ko", "https://x.com/user/status/123">>)
  /\ extracted = Resolved("ko", "https://x.com/user/status/123")

\* C14: when the service answers parseable JSON, each field of the answer
\* is preferred, and a field that is omitted or empty falls back to the
\* regex guess for that field alone.
C14_ServiceFieldsPreferred ==
  (Parsed /\ text.isString /\ text.items # <<>> /\ service.out = "object") =>
     /\ (Present(service.language) => extracted.language = service.language)
     /\ (~Present(service.language) =>
           IsIsoGuess(text.items, extracted.language))
     /\ (Present(service.tweetUrl) => extracted.tweetUrl = service.tweetUrl)
     /\ (~Present(service.tweetUrl) =>
           IsUrlGuess(text.items, extracted.tweetUrl))

C14_Witness ==
  /\ xpc = "parsed"
  /\ service = Answer("object", "Korean", "")
  /\ text = StringText(<<"hi", "http://twitter.com/a_b/status/9?s=20">>)
  /\ extracted = Resolved("Korean", "http://twitter.com/a_b/status/9")

\* C17: for every name of the supported table and every two-letter code of
\* it, normalizeLanguage returns a name for which the lookup in the
\* LANGUAGE_MAP next to it (index.js, config/twitter.js) is defined.
C17_NormalizedNameHasLocale ==
  (xpc = "normalized" /\
   extracted.language \in DOMAIN SupportedLocales \cup isoAlternatives) =>
     /\ Lookup(LANGUAGE_MAP, normalized) \in
          {SupportedLocales[n] : n \in DOMAIN SupportedLocales}
     /\ Lookup(LANGUAGE_MAP_twitter, normalized) = Lookup(LANGUAGE_MAP, normalized)

C17_Witness ==
  /\ xpc = "normalized"
  /\ extracted.language = "zh"
  /\ normalized = "Chinese"

\* ======================================================================
\* Claims about one handler invocation (checked under SpecHandlers)
\* ======================================================================
EarlyEndings == {"rate_limited", "timeline_error", "empty", "exception"}

\* C12: the cursor is written only after the whole batch of a poll run was
\* scanned: a run that ends early (rate-limited, timeline error, empty
\* timeline, an exception while iterating) leaves it unchanged, and a run
\* in which the processing of a mention failed does not advance it past
\* that mention.
C12_CursorAfterFullScan ==
  handler = "doPollMentions" =>
     /\ (ending \in EarlyEndings => cursor = 0)
     /\ (cursor # 0 =>
           /\ ending = "scanned"
           /\ \A f \in failedIds : cursor < f)

C18_FallbackLanguageEnglish ==
  /\ handed \notin {undefined, ""}
  /\ (handed # "none" /\ raw.language \in {undefined, "", " "}) =>
        handed = "English"

C18_Witness ==
  /\ hpc = "awaitJob"
  /\ raw.language = undefined
  /\ handed = "English"
  /\ jobs = {Mention}

\* C19: a failure of the reply publisher after sendToMurf returned a url is
\* only logged: the handler tweets no failure reply for the mention and
\* answers no error.
C19_PublisherFailureOnlyLogged ==
  (jobOutcome = "url" /\ published = "failed") =>
     /\ replied \cap {"dubbing_failed", "download_failed"} = {}
     /\ response # "500"

\* C20: within one doPollMentions or webhook invocation the mentions are
\* processed one after another: while a job is in flight it is the job of
\* the current mention and the handler waits for it, so no extractor,
\* download or submission call is made for the next mention and an
\* invocation never has two jobs in flight.
C20_OneJobAtATime ==
  Looping =>
     /\ Cardinality(jobs) <= 1
     /\ (jobs # {} => hpc = "awaitJob" /\ jobs = {Mention})

C20_Witness ==
  /\ Looping
  /\ pos = 2
  /\ hpc = "awaitJob"
  /\ jobs = {Mention}

\* ======================================================================
\* Claims about the request handling of the endpoints (SpecHandlers)
\* ======================================================================
\* a GET that carries a crc_token
IsChallenge ==
  request.method = "GET" /\ request.crc_token \notin {undefined, ""}

\* nothing of the mention pipeline has run
NoMentionProcessing ==
  /\ mentions = <<>>
  /\ raw = NoRaw
  /\ video = "none"
  /\ handed = "none"
  /\ jobs = {}
  /\ jobOutcome = "none"
  /\ published = "none"
  /\ replied = {}

\* C24: twitterWebhook dispatches on the request. A GET carrying crc_token
\* is answered with the response_token "sha256=" + HMAC-SHA256(secret,
\* token) in base64, a function of the token and the secret only, and no
\* mention is processed. A POST processes the events of the body and
\* answers success. Any other request is answered 400. Each request gets
\* exactly one response: nothing runs after the response was sent.
C24_WebhookDispatch ==
  handler = "twitterWebhook" =>
     /\ (response # "none" <=> hpc = "done")
     /\ IsChallenge =>
          /\ response = "200" /\ error = "none"
          /\ crc = [prefix |-> "sha256=",
                    digest |-> HmacSha256Base64(consumerSecret,
                                                request.crc_token)]
          /\ NoMentionProcessing
     /\ request.method = "POST" =>
          /\ crc = NoCrc
          /\ response \in {"none", "200"} /\ error = "none"
          /\ (request.body.shape = "events" =>
                mentions = request.body.events)
          /\ (response = "200" /\ mentions # <<>> => pos = Len(mentions))
     /\ (~IsChallenge /\ request.method # "POST") =>
          /\ response = "400"
          /\ crc = NoCrc
          /\ NoMentionProcessing

C24_Witness ==
  /\ handler = "twitterWebhook"
  /\ request.method = "GET"
  /\ request.crc_token = "tokenB"
  /\ response = "200"
  /\ crc = createCrcResponse("tokenB")

\* the mention events an inbound body delivers
Delivered ==
  IF request.body.shape = "events"
  THEN {request.body.events[k] : k \in 1..Len(request.body.events)}
  ELSE IF request.body.shape = "simple" THEN {request.body.id}
  ELSE {}

\* the mentions the handler feeds to the pipeline
Fed == {mentions[k] : k \in 1..Len(mentions)}

\* C25: every mention event delivered in a webhook POST, in either body
\* shape ({tweet_create_events: [...]} with one or more events, or the
\* simplified {id, text, screen_name}), is fed to the pipeline, and a
\* webhook endpoint never answers success for a body with a mention it
\* did not process.
C25_EveryDeliveredMentionFed ==
  (handler \in {"handleMention", "twitterWebhook"} /\ request.method = "POST") =>
     (response \in {"none", "200"} => Delivered \subseteq Fed)

\* C26: processTweetDirect answers every request with exactly one response,
\* sent as its last step: either success after the job completed, or a
\* structured error. A request without tweetId gets 400 and no external
\* call is made; a tweet that is not found gets 404; a tweet whose text
\* does not mention the bot gets 400 with no download and no submission.
C26_DirectAnswersOnce ==
  handler = "processTweetDirect" =>
     /\ (response # "none" <=> hpc = "done")
     /\ (response = "200" =>
           jobOutcome = "url" /\ error = "none" /\ handed = normalizedLanguage)
     /\ (response \notin {"none", "200"} => error # "none")
     /\ (request.tweetId = 0 =>
           response = "400" /\ lookup = "none" /\ NoMentionProcessing)
     /\ (lookup = "not_found" => response = "404" /\ NoMentionProcessing)
     /\ (lookup = "no_handle" => response = "400" /\ NoMentionProcessing)

C26_Witness ==
  /\ handler = "processTweetDirect"
  /\ lookup = "no_handle"
  /\ response = "400"
  /\ error = "Tweet doesn't mention the bot"

\* ======================================================================
\* Claims about failures in the pipeline (checked under SpecHandlers)
\* ======================================================================

\* C27: when the source video download fails, no dub job is submitted for
\* the mention in the invocation and the download is not tried again; in
\* handleMention and processTweetDirect the requester gets the error
\* 'Failed to download video'.
C27_DownloadFailureEndsMention ==
  video \in {"failed", "no_video"} =>
     /\ handed = "none"
     /\ jobs = {}
     /\ jobOutcome = "none"
     /\ published = "none"
     /\ hpc \in {"next", "cursor", "done"}
     /\ (handler \in {"handleMention", "processTweetDirect"} =>
           /\ hpc = "done"
           /\ response = "500"
           /\ error = "Failed to download video")

C27_Witness ==
  /\ handler = "handleMention"
  /\ video = "failed"
  /\ hpc = "done"
  /\ error = "Failed to download video"
  /\ "download_failed" \in replied

\* C28: a dub-job failure is surfaced to the requester in every producer
\* path: once the handler is done with a mention whose sendToMurf call
\* failed, it has posted a failure reply to the mention or answered an
\* error response that carries the failure.
C28_JobFailureSurfaced ==
  (jobOutcome = "failed" /\ hpc \in {"next", "cursor", "done"}) =>
     \/ "dubbing_failed" \in replied
     \/ (response = "500" /\ error = "Murf processing failed")

\* C29: for every mention that is dubbed the acknowledgement reply is
\* attempted before the media download and the job submission, in every
\* producer path, and a failed acknowledgement does not stop the pipeline.
C29_AcknowledgedBeforeDubbing ==
  /\ (video # "none" \/ handed # "none" \/ hpc = "download") =>
        replied \cap {"starting", "starting_failed"} # {}
  /\ ("starting_failed" \in replied /\ video = "none") => hpc = "download"

\* C30: when the mentions-timeline call is rate limited (code 429),
\* doPollMentions skips the run: the run is over without another timeline
\* call and without raising, no mention was processed, and no step of the
\* run, from its start to the timeline call, wrote a ProcessedMarker or
\* the cursor.
C30_RateLimitedRunSkipped ==
  /\ [](handler = "doPollMentions" /\ ending = "rate_limited" =>
          hpc = "done" /\ NoMentionProcessing /\ cursor = 0)
  /\ [][(handler' = "doPollMentions" /\ hpc \in {"idle", "readState", "timeline"}) =>
          (marked' = marked /\ cursor' = cursor)]_vars

C30_Witness ==
  /\ handler = "doPollMentions"
  /\ ending = "rate_limited"
  /\ hpc = "done"
  /\ marked = {1}

\* ----------------------------------------------------------------------
\* C31: two doPollMentions invocations never process mentions at the same
\* time: while one is between its first marker lookup and its cursor write,
\* no other poll run is in that part of its loop.
InMentionLoop(p) ==
  kind[p] = "poll" /\ pc[p] \in {"check", "extract", "dub", "publish", "mark"}

C31_NoOverlappingPollRuns ==
  Cardinality({p \in Procs : InMentionLoop(p)}) <= 1

\* ----------------------------------------------------------------------
\* C32: sendToMurf terminates after at most 120 status calls. In the two
\* polling implementations the number of status calls never exceeds
\* maxRetries and equals the loop counter while the loop runs; a call that
\* has not ended can always take a step; and every step of the loop either
\* ends the call or consumes one attempt, whatever the vendor answered.
Ended == mpc \in {"returned", "thrown"}

C32_SendToMurfTerminates ==
  /\ [](Polling =>
          /\ statusCalls <= maxRetries
          /\ (mpc = "poll" => i = statusCalls /\ i <= maxRetries)
          /\ (Ended => result.kind \in {"return", "throw"})
          /\ (~Ended => ENABLED Next))
  /\ [][Polling /\ mpc = "poll" =>
          \/ Ended' /\ statusCalls' <= statusCalls + 1
          \/ mpc' = "poll" /\ i' = i + 1 /\ statusCalls' = statusCalls + 1]_vars

\* every one of the 120 attempts was answered by a network error or a
\* non-terminal status, and the call ended with the timeout error
C32_Witness ==
  /\ Polling /\ mpc = "thrown" /\ result = TimeoutError
  /\ statusCalls = maxRetries /\ i = maxRetries
  /\ "net" \in priorKinds

\* ----------------------------------------------------------------------
\* C33: a marker is written only for a mention whose dub job completed.
\* Whenever a handler adds a document to processedTweets, the document is
\* the current mention's, the source video was downloaded, sendToMurf
\* returned a url, the result was fetched and uploaded and the reply with
\* the dubbed video was attempted; no step taken for a mention whose
\* download or job failed adds a marker.
C33_MarkerOnlyAfterCompletedJob ==
  [][marked' # marked =>
       /\ marked' = marked \cup {Mention}
       /\ handler \in {"doPollMentions", "twitterWebhook"}
       /\ video = "ok"
       /\ handed # "none" /\ jobOutcome = "url"
       /\ published \in {"ok", "failed"}
       /\ "dubbed" \in replied
       /\ replied \cap {"download_failed", "dubbing_failed"} = {}
       /\ Mention \notin failedIds]_vars

\* a poll run has just marked a mention that was not marked before the run
C33_Witness ==
  /\ handler = "doPollMentions" /\ hpc = "next"
  /\ Mention \in marked
  /\ jobOutcome = "url" /\ published = "ok"

\* ----------------------------------------------------------------------
\* C34: failure isolation inside a batch. In doPollMentions and in the
\* webhook path, the step at which a mention turns out to have no link, a
\* download that failed or a job that failed goes to the next element of
\* the loop and ends nothing; the loop then takes the following mention,
\* or, after the last one, the poll run writes its cursor; and a poll run
\* that scanned a non-empty batch ends with the cursor at the last mention
\* of the batch.
MentionFails ==
  \/ hpc = "parsed" /\ raw.tweetUrl = undefined
  \/ hpc = "download" /\ video' = "failed"
  \/ hpc = "awaitJob" /\ hpc' # "awaitJob" /\ jobOutcome = "failed"

C34_FailureIsolatedInBatch ==
  /\ [](handler = "doPollMentions" /\ hpc \in {"cursor", "done"}
           /\ ending \notin EarlyEndings /\ mentions # <<>> =>
         /\ pos = Len(mentions)
         /\ newest = mentions[Len(mentions)]
         /\ (ending = "scanned" => cursor = mentions[Len(mentions)]))
  /\ [][Looping /\ MentionFails =>
          hpc' = "next" /\ ending' = ending /\ mentions' = mentions]_vars
  /\ [][Looping /\ hpc = "next" =>
          IF pos < Len(mentions)
          THEN hpc' = "check" /\ pos' = pos + 1
          ELSE hpc' = IF handler = "doPollMentions" THEN "cursor" ELSE "done"]_vars

\* a poll run over two mentions: the first failed, the second was dubbed
\* and marked, and the cursor is at the second
C34_Witness ==
  /\ handler = "doPollMentions" /\ hpc = "done" /\ ending = "scanned"
  /\ Len(mentions) = 2
  /\ mentions[1] \in failedIds
  /\ jobOutcome = "url" /\ published = "ok" /\ mentions[2] \in marked
  /\ cursor = mentions[2]

\* ----------------------------------------------------------------------
\* C37: the OAuth callback exchanges the code and overwrites the stored
\* tokens only when the state parameter equals the stored state. Once the
\* handler has compared a state that differs, it is answered 400, it is
\* past its last statement, tokens/demo is as auth left it, and no second
\* response was attempted.
StateMismatch ==
  /\ handler = "callback"
  /\ response # "none" \/ hpc # "done"
  /\ request.state # AfterAuth("stateA").state

C37_CallbackRequiresMatchingState ==
  StateMismatch =>
    /\ hpc = "done"
    /\ response = "400"
    /\ tokensDoc = AfterAuth("stateA")
    /\ error # "ERR_HTTP_HEADERS_SENT"

\* ----------------------------------------------------------------------
\* C35: transient video files do not outlive the request. When a handler
\* that writes the source video to a temporary file has finished, that
\* file is gone, whether sendToMurf returned or threw.
FileWritingHandlers ==
  {"handleMention", "doPollMentions", "processTweetDirect", "twitterWebhook",
   "dubVideo", "handleDubbing"}

C35_TransientFilesRemoved ==
  (handler \in FileWritingHandlers /\ hpc = "done") =>
     tmp[VideoPath(ThisRequest)] = 0

\* the same for the four handlers of index.js alone
IndexHandlersRemoveFiles ==
  (handler \in FileWritingHandlers \ {"dubVideo", "handleDubbing"}
     /\ hpc \in {"done", "next", "check"}) =>
     tmp[VideoPath(ThisRequest)] = 0

\* ----------------------------------------------------------------------
\* C36: every dubVideo request receives exactly one response: the success
\* JSON when the job returned, 400 without tweetUrl, and 500 with a
\* structured error when the download or the job failed.
C36_DubVideoAlwaysResponds ==
  (handler = "dubVideo" /\ hpc = "done" /\ request.method = "GET") =>
     /\ response # "none"
     /\ (request.tweetUrl = undefined => response = "400")
     /\ (video = "failed" \/ jobOutcome = "failed" => response = "500")
     /\ (jobOutcome = "url" => response = "200")

\* ----------------------------------------------------------------------
\* C38: under concurrent handleDubbing requests the dubbed file a request
\* uploads and the dubbed file it deletes are its own: whenever a request's
\* upload reads dubbed.mp4 the file holds that request's result, and
\* whenever a request removes dubbed.mp4 the file is the one it wrote.
C38_OwnDubbedFileOnly ==
  [][\A p \in Procs :
       kind[p] = "handleDubbing" =>
         /\ (pc[p] = "upload" /\ pc'[p] = "reply" => tmp[DubbedPath] = p)
         /\ (pc[p] = "reply" /\ tmp[DubbedPath] # 0 /\ tmp'[DubbedPath] = 0
               => tmp[DubbedPath] = p)]_vars

\* ----------------------------------------------------------------------
\* C39: normalizeLanguage is case-insensitive for names as it is for
\* codes. An input that is a supported name in any letter case, with or
\* without surrounding whitespace, normalizes to that name, and
\* normalizeLanguage maps the result to itself.
IsVariantOf(input, name) ==
  /\ input \notin {undefined, ""}
  /\ toLowerCase(trim(Spell(input))) = toLowerCase(Spell(name))

C39_NamesCaseInsensitive ==
  xpc = "normalized" =>
    \A name \in DOMAIN SupportedLocales :
      IsVariantOf(extracted.language, name) =>
        /\ normalized = name
        /\ normalizeLanguage(normalized) = normalized

====
